---- MODULE Spec2Model ----
(***************************************************************************)
(* Model of the container resource collector                               *)
(* (scripts/k8s-resource-collector.mjs): the sampling loop of main, the    *)
(* three-tier acquisition of fetchUsageRows and the transactional          *)
(* persistence of collectOnce.                                             *)
(*                                                                         *)
(* The collector is one async function chain, so the model has one thread  *)
(* of control.  A state is the program suspended at an await; an action is *)
(* the completion of the awaited call (with its result chosen by \E)       *)
(* followed by all the synchronous code up to the next await.              *)
(***************************************************************************)
EXTENDS Integers, Sequences, FiniteSets, TLC

\* ------------------------------------------------------------------ bounds
MaxCycles == 2        \* sampling cycles the model runs

\* --------------------------------------------------------------- universe
\* Container keys `${namespace}/${podName}/${containerName}` of the target
\* namespace (one container per pod), and the cluster's nodes in list order.
Keys == {"ns/p1/c", "ns/p2/c"}
NodeList == <<"n1", "n2">>
NumNodes == Len(NodeList)
\* The key whose container runs on a node (its samples come from that node).
HostedKey(n) == IF n = "n1" THEN "ns/p1/c" ELSE "ns/p2/c"

\* Values the exposition samples may carry.  The container of n1 is busy: its
\* counter takes any of the values below at any of the timestamps (so that it
\* advances, stalls and resets between cycles, and the rate rounds both ways:
\* 1 s / 1.5 s = 666.67, 2 s / 1.5 s = 1333.33).  The container of n2 is idle
\* and always shows the same observation.
TotalSecondsValues == {0, 1, 2}
TsMsValues == {1500, 3000}
MemoryValues == {64}
CpuObservations(k) ==
  IF k = "ns/p1/c" THEN TotalSecondsValues \X TsMsValues ELSE {<<1, 1500>>}

NoEntry == [absent |-> TRUE]

VARIABLES
  pc,                   \* the await the program is suspended at
  cycle,                \* number of the sampling cycle (iterations of main's loop)
  inflight,             \* requests issued and not yet answered
  podsIndex,            \* keys whose pod has a uid in byNamespaceName (this cycle)
  cpuTotalByContainer,  \* CounterState: key -> NoEntry or [totalSeconds, tsMs]
  cpuTotals,            \* fetchViaCadvisor local: key -> NoEntry or [totalSeconds, tsMs]
  memoryByContainer,    \* fetchViaCadvisor local: key -> NoEntry or [value]
  nodeIdx,              \* index in NodeList of the node being fetched
  skipped,              \* why lines of this Tier 2 run were passed over (history)
  rows,                 \* rows under construction / returned by fetchUsageRows
  insertIdx,            \* index of the row whose INSERT is awaited
  sampleCount,          \* collectOnce local
  store,                \* committed rows of container_resource_samples
  connHeld,             \* collectOnce holds a pool connection
  connTxn,              \* transaction state of the pooled connection
  txnRows,              \* rows inserted in the open transaction
  cyc,                  \* per-cycle record of what happened (for the properties)
  call                  \* a function applied on its own: name, argument, result

collectorVars ==
  <<pc, cycle, inflight, podsIndex, cpuTotalByContainer, cpuTotals, memoryByContainer,
    nodeIdx, skipped, rows, insertIdx, sampleCount, store, connHeld, connTxn, txnRows, cyc>>
vars == <<pc, cycle, inflight, podsIndex, cpuTotalByContainer, cpuTotals,
          memoryByContainer, nodeIdx, skipped, rows, insertIdx, sampleCount, store,
          connHeld, connTxn, txnRows, cyc, call>>

EmptyMap == [k \in Keys |-> NoEntry]

\* The collector runs; no function is being applied on its own.
NoCall == [fn |-> "none"]

\* What one cycle has done so far.
FreshCycle(st, ctr) ==
  [ attempted |-> <<>>,       \* tiers attempted, in order
    raised |-> {},            \* tiers that raised
    served |-> 0,             \* tier whose rows fetchUsageRows returned
    tierRows |-> <<>>,        \* rows that tier returned
    counterBefore |-> ctr,    \* CounterState when the cycle started
    storeBefore |-> st,       \* store when the cycle started
    acquired |-> 0,           \* pool.connect() calls that succeeded
    released |-> 0,           \* db.release() calls
    began |-> FALSE,          \* BEGIN was issued
    failedAt |-> "none",      \* the step whose error collectOnce threw
    rollbackFailed |-> FALSE,
    outcome |-> "running",    \* running | ok | failed | idle (between cycles)
    listPods |-> 0,           \* list-pods requests issued
    pods |-> [fetched |-> FALSE],  \* what the list-pods response held
    t1Skipped |-> {},         \* keys of the items Tier 1 passed over
    observed |-> EmptyMap,    \* the samples Tier 2 wrote to CounterState
    elapsedMs |-> 0,          \* main: Date.now() - startedAt of the cycle finished
    sleepMs |-> 0 ]           \* main: the delay passed to sleep

\* ------------------------------------------------------------- arithmetic
MaxIsFirst(a, b) == a
Max(a, b) == IF a >= b THEN a ELSE b

\* Math.round(n / d) for d > 0: the nearest integer, halves towards +infinity.
MathRound(n, d) == (2 * n + d) \div (2 * d)


\* ----------------------------------------------------- quantity parsing
\* A Kubernetes quantity string, held as its numeric prefix and its suffix.
Qty(n, u) == [num |-> n, unit |-> u]

\* parseCpuToMillicores: 'n' -> /1e6, 'u' -> /1e3, 'm' -> as is, else cores * 1000.
\* parseFloat accepts a leading sign, and no branch floors the result.
parseCpuToMillicores(q) ==
  CASE q.unit = "n" -> MathRound(q.num, 1000000)
    [] q.unit = "u" -> MathRound(q.num, 1000)
    [] q.unit = "m" -> q.num
    [] OTHER -> q.num * 1000

\* parseMemoryToBytes: binary and decimal unit tables, no unit -> bytes.  The
\* pattern ^([0-9.]+)([a-zA-Z]+)?$ does not match a signed quantity: result 0.
parseMemoryToBytes(q) ==
  CASE q.num < 0 -> 0
    [] q.unit = "Ki" -> q.num * 1024
    [] q.unit = "Mi" -> q.num * 1024 * 1024
    [] q.unit = "K" -> q.num * 1000
    [] q.unit = "M" -> q.num * 1000 * 1000
    [] OTHER -> q.num

\* The uniform row shape of the tiers; key stands for (podUid, podName,
\* containerName).
Row(k, cpu, mem) == [key |-> k, cpuMillicores |-> cpu, memoryBytes |-> mem]

\* ------------------------------------------------------------ identities
\* What a key stands for: the uid of the pod ns/<podName> and the container's
\* name (the two pods run a container of the same name).
PodUid(k) == IF k = "ns/p1/c" THEN "uid-p1" ELSE "uid-p2"
ContainerName(k) == "c"

\* crypto.createHash('md5').update(value).digest('hex'), on the strings the
\* model hashes.
Md5Hex(value) ==
  CASE value = "uid-p1:c" -> "adc58ba8ab64d2712444fa87b961647c"
    [] value = "uid-p2:c" -> "b19193b512c19c3aad0639047f8759e4"
    [] value = "uid-p1c" -> "db998993acc2e81258f0bad8d29df04d"
    [] value = "uid-p2c" -> "27dec1dbd67f24ea59994028b630a052"

\* makeUuidFromString: the digest cut 8-4-4-4-12 (slice(a, b) is SubSeq(a + 1, b)).
makeUuidFromString(value) ==
  LET md5 == Md5Hex(value) IN
  SubSeq(md5, 1, 8) \o "-" \o SubSeq(md5, 9, 12) \o "-" \o SubSeq(md5, 13, 16)
    \o "-" \o SubSeq(md5, 17, 20) \o "-" \o SubSeq(md5, 21, 32)

\* collectOnce: the string hashed into a sample row's container_id.
SampleIdSourceNoSeparator(podUid, containerName) == podUid \o containerName
SampleIdSource(podUid, containerName) == podUid \o ":" \o containerName

\* The inventory sync (k8s-collector.mjs): id of container cs.name of the pod
\* whose metadata.uid is podId.
InventoryContainerId(podId, name) == makeUuidFromString(podId \o ":" \o name)

\* ----------------------------------------------------------- responses
Failure == [ok |-> FALSE]

\* fetchPodsIndex: the pods listed, as the set of keys whose pod carries a uid.
PodsIndexResponses == {[ok |-> TRUE, index |-> i] : i \in SUBSET Keys}

\* metrics.k8s.io pod items: one container each, usage as quantity strings.
MetricsItem(k, uid, cpu, mem) ==
  [key |-> k, hasUid |-> uid, hasName |-> TRUE, cpu |-> cpu, memory |-> mem]
\* An item whose metadata has a uid and no name.
NamelessItem(cpu, mem) ==
  [key |-> "ns//c", hasUid |-> TRUE, hasName |-> FALSE, cpu |-> cpu, memory |-> mem]
Tier1Responses ==
  { [ok |-> TRUE, items |-> <<>>],
    [ok |-> TRUE, items |->
       << MetricsItem("ns/p1/c", TRUE, Qty(500, "m"), Qty(1, "Ki")),
          MetricsItem("ns/p2/c", FALSE, Qty(2, ""), Qty(1024, "")),
          NamelessItem(Qty(3, ""), Qty(1024, "")) >>],
    [ok |-> TRUE, items |->
       << MetricsItem("ns/p2/c", FALSE, Qty(2, ""), Qty(1024, "")) >>],
    [ok |-> TRUE, items |->
       << MetricsItem("ns/p1/c", TRUE, Qty(250000000, "n"), Qty(128, "Mi")),
          MetricsItem("ns/p2/c", TRUE, Qty(-5, "m"), Qty(-1, "Ki")) >>] }

\* ------------------------------------------------------ exposition lines
TARGET_NAMESPACE == "ns"
CpuMetric == "container_cpu_usage_seconds_total"
MemMetric == "container_memory_working_set_bytes"

\* The labels of a series the collector reads; "" is an absent label.
Labels(ns, pod, container, id) ==
  [namespace |-> ns, pod |-> pod, container |-> container, id |-> id]
KeyLabels(k) == Labels("ns", IF k = "ns/p1/c" THEN "p1" ELSE "p2", "c", "")

\* One line of an exposition: metric name, whether a {...} label block follows
\* it, the labels of the block, the value token and the timestamp.
Line(m, braces, labels, token, ts) ==
  [metric |-> m, braces |-> braces, labels |-> labels, value |-> token, timestamp |-> ts]
\* The line of the series of container key k with value v.
Sample(m, k, v, t) == Line(m, TRUE, KeyLabels(k), ToString(v), t)

\* The value group of the line pattern, ([0-9eE+.-]+).
ValueChars == {"0", "1", "2", "3", "4", "5", "6", "7", "8", "9", "e", "E", "+", ".", "-"}
MatchesValueGroup(token) ==
  /\ Len(token) > 0
  /\ \A i \in 1..Len(token) : SubSeq(token, i, i) \in ValueChars

\* parseFloat on a token without sign, fraction or exponent: the decimal value
\* of its leading digits, NaN when it has none.
NaN == [nan |-> TRUE]
DigitValue(c) ==
  CASE c = "0" -> 0 [] c = "1" -> 1 [] c = "2" -> 2 [] c = "3" -> 3 [] c = "4" -> 4
    [] c = "5" -> 5 [] c = "6" -> 6 [] c = "7" -> 7 [] c = "8" -> 8 [] c = "9" -> 9
    [] OTHER -> -1
RECURSIVE LeadingDigits(_, _, _)
LeadingDigits(token, i, acc) ==
  IF i > Len(token) \/ DigitValue(SubSeq(token, i, i)) < 0
    THEN [count |-> i - 1, value |-> acc]
    ELSE LeadingDigits(token, i + 1, 10 * acc + DigitValue(SubSeq(token, i, i)))
parseFloat(token) ==
  LET d == LeadingDigits(token, 1, 0) IN IF d.count = 0 THEN NaN ELSE d.value

\* parsePrometheusLine: null unless the line matches name{labels} value [ts].
NoResult == [null |-> TRUE]
parsePrometheusLine(line) ==
  IF ~line.braces \/ ~MatchesValueGroup(line.value)
    THEN NoResult
    ELSE [metric |-> line.metric, labels |-> line.labels,
          value |-> parseFloat(line.value), timestamp |-> line.timestamp]

\* fetchPodsIndex, byRuntimeContainerId: the runtime id of each listed pod's
\* container whose status has a containerID (the container of p1 has started,
\* that of p2 has none yet) -> its namespace, pod and container name.
RuntimeId(k) == IF k = "ns/p1/c" THEN "0123456789abcdef01234567" ELSE ""
ByRuntimeContainerId(idx) ==
  [rid \in {RuntimeId(k) : k \in idx} \ {""} |->
     KeyLabels(CHOOSE k \in idx : RuntimeId(k) = rid)]

\* idPath.match(/\/([a-f0-9]{24,})$/i)?.[1]: the last segment of the cgroup
\* path if it is 24 or more hex digits ("" for no match).
HexChars == {"0", "1", "2", "3", "4", "5", "6", "7", "8", "9",
             "a", "b", "c", "d", "e", "f", "A", "B", "C", "D", "E", "F"}
RECURSIVE LastSlash(_, _)
LastSlash(path, i) ==
  IF i = 0 \/ SubSeq(path, i, i) = "/" THEN i ELSE LastSlash(path, i - 1)
RuntimeIdOf(idPath) ==
  LET p == LastSlash(idPath, Len(idPath))
      seg == SubSeq(idPath, p + 1, Len(idPath)) IN
  IF p > 0 /\ Len(seg) >= 24 /\ \A i \in 1..Len(seg) : SubSeq(seg, i, i) \in HexChars
    THEN seg ELSE ""

\* namespace, pod and container of a parsed sample: its labels, or, when the
\* container label is empty, the entry of byRuntimeContainerId for its id.
ResolveIdentity(labels, byRuntime) ==
  IF labels.container # "" THEN labels
  ELSE LET runtimeId == RuntimeIdOf(labels.id) IN
       IF runtimeId # "" /\ runtimeId \in DOMAIN byRuntime
         THEN byRuntime[runtimeId]
         ELSE labels

\* if (!namespace || namespace !== TARGET_NAMESPACE || !podName || !containerName) continue
Resolved(l) ==
  l.namespace # "" /\ l.namespace = TARGET_NAMESPACE /\ l.pod # "" /\ l.container # ""
ContainerKey(l) == l.namespace \o "/" \o l.pod \o "/" \o l.container

\* A node's cadvisor exposition: for the container it hosts, an optional CPU
\* counter sample and an optional memory gauge sample.
CpuLines(k) ==
  {<<>>} \cup {<<Sample(CpuMetric, k, o[1], o[2])>> : o \in CpuObservations(k)}
MemLines(k) ==
  {<<>>} \cup {<<Sample(MemMetric, k, v, 1500)>> : v \in MemoryValues}
\* An exposition with lines the loop passes over, before and after lines it
\* takes: a line without label block, the series of the pod's cgroup (no
\* container label, no runtime id), the container's CPU series identified by
\* its runtime id only, and a line whose value is not a number.
NoisyLines(k) ==
  << Sample(MemMetric, k, 64, 1500),
     Line(CpuMetric, FALSE, KeyLabels(k), "2", 1500),
     Line(CpuMetric, TRUE, Labels("", "", "", "/kubepods/burstable/pod1"), "2", 1500),
     Line(CpuMetric, TRUE,
          Labels("", "", "", "/kubepods/burstable/pod1/" \o RuntimeId(k)), "1", 1500),
     Line(MemMetric, TRUE, KeyLabels(k), "NaN", 1500) >>

\* An exposition that has a container's series carries its memory gauge and
\* may lack its CPU counter.  An exposition may also carry a series twice (one
\* sample per CPU core, say).
CadvisorResponses(n) ==
  {[ok |-> TRUE, lines |-> c \o m] :
     c \in CpuLines(HostedKey(n)), m \in MemLines(HostedKey(n)) \ {<<>>}}
  \cup {[ok |-> TRUE, lines |-> <<>>]}
  \cup {[ok |-> TRUE, lines |->
           <<Sample(CpuMetric, HostedKey(n), 0, 1500), Sample(CpuMetric, HostedKey(n), 1, 1500),
             Sample(MemMetric, HostedKey(n), 64, 1500)>>]}
  \cup (IF n = "n1" THEN {[ok |-> TRUE, lines |-> NoisyLines(HostedKey(n))]} ELSE {})

\* A node's stats summary: the pods of the node, one container each.
SummaryItem(k, uid, nano, ws) ==
  [key |-> k, refUid |-> uid, usageNanoCores |-> nano, workingSetBytes |-> ws]
SummaryResponses(n) ==
  { [ok |-> TRUE, pods |-> <<>>],
    [ok |-> TRUE, pods |-> <<SummaryItem(HostedKey(n), FALSE, 120000000, 2048)>>] }

Req(op, arg) == [op |-> op, arg |-> arg]

\* ----------------------------------------------------------------- Init
CollectorInit ==
  /\ pc = "startup"
  /\ cycle = 0
  /\ inflight = {Req("pool.query", "ensureSchema")}
  /\ podsIndex = {}
  /\ cpuTotalByContainer = EmptyMap
  /\ cpuTotals = EmptyMap
  /\ memoryByContainer = EmptyMap
  /\ nodeIdx = 0
  /\ skipped = {}
  /\ rows = <<>>
  /\ insertIdx = 0
  /\ sampleCount = 0
  /\ store = {}
  /\ connHeld = FALSE
  /\ connTxn = "none"
  /\ txnRows = <<>>
  /\ cyc = FreshCycle({}, EmptyMap)

Init == CollectorInit /\ call = NoCall

tier2Locals == <<cpuTotals, memoryByContainer, nodeIdx, skipped>>
dbVars == <<store, connHeld, connTxn, txnRows, insertIdx, sampleCount>>

\* ------------------------------------------------------- control helpers
\* collectOnce rejects: the error reaches the try/catch of main's loop.
Throw(c, where) ==
  /\ pc' = "finished"
  /\ inflight' = {}
  /\ cyc' = [c EXCEPT !.outcome = "failed", !.failedAt = where]

TierPc(t) == CASE t = 1 -> "tier1" [] t = 2 -> "t2nodes" [] OTHER -> "t3nodes"
TierRequest(t) ==
  CASE t = 1 -> Req("k8sGet", "metrics.k8s.io/pods")
    [] t = 2 -> Req("k8sGet", "nodes (cadvisor)")
    [] OTHER -> Req("k8sGet", "nodes (summary)")

\* The tier function is called: its first request is issued.
StartTier(t, c) ==
  /\ pc' = TierPc(t)
  /\ inflight' = {TierRequest(t)}
  /\ cyc' = [c EXCEPT !.attempted = Append(@, t)]

\* fetchUsageRows: the tier its catch blocks call after tier t has raised.
FallbackTierSkipsCadvisor(t) == 3
FallbackTier(t) == t + 1

\* fetchUsageRows resolves with the rows of tier t; collectOnce resumes.
TierReturned(t, c, rs) ==
  /\ pc' = "fetched"
  /\ inflight' = {}
  /\ rows' = rs
  /\ cyc' = [c EXCEPT !.served = t, !.tierRows = rs]

\* Tier 3 raised: `return fetchViaNodeSummary(...)` is outside any try, so
\* fetchUsageRows rejects and collectOnce rejects at its first await.
AllTiersFailedSwallowed(c) == TierReturned(3, c, <<>>)
AllTiersFailed(c) == Throw(c, "tiers") /\ rows' = <<>>

\* Tier t raised (transport error, non-2xx status, JSON.parse failure).
TierRaised(t) ==
  LET c == [cyc EXCEPT !.raised = @ \cup {t}] IN
  IF t < 3
    THEN StartTier(FallbackTier(t), c) /\ rows' = rows
    ELSE AllTiersFailed(c)

\* --------------------------------------------------------------- startup
\* main, loop head: startedAt, collectOnce -> fetchUsageRows -> fetchPodsIndex,
\* whose k8sGet is the first request of the cycle.
BeginCycle ==
  /\ cycle' = cycle + 1
  /\ pc' = "podsIndex"
  /\ inflight' = {Req("k8sGet", "pods")}
  /\ cyc' = [FreshCycle(store, cpuTotalByContainer) EXCEPT !.listPods = @ + 1]
  /\ podsIndex' = {}
  /\ rows' = <<>>
  /\ cpuTotals' = EmptyMap
  /\ memoryByContainer' = EmptyMap
  /\ nodeIdx' = 0
  /\ skipped' = {}
  /\ insertIdx' = 0
  /\ sampleCount' = 0
  /\ UNCHANGED <<cpuTotalByContainer, store, connHeld, connTxn, txnRows, call>>

\* main up to the loop: credentials, buildDbConfig, ensureSchema.  A failure
\* rejects main and the process exits with status 1.
Startup ==
  /\ pc = "startup"
  /\ \E ok \in BOOLEAN :
       IF ok
         THEN BeginCycle
         ELSE /\ pc' = "exited"
              /\ inflight' = {}
              /\ UNCHANGED <<cycle, podsIndex, cpuTotalByContainer, tier2Locals, rows,
                             dbVars, cyc, call>>

\* ------------------------------------------------------------ pods index
\* fetchPodsIndex builds its maps from the response alone; previous is what
\* an earlier call returned.
FetchPodsIndexKept(previous, resp) == previous
fetchPodsIndex(previous, resp) == resp.index

PodsIndexDone ==
  /\ pc = "podsIndex"
  /\ \E resp \in {Failure} \cup PodsIndexResponses :
       IF resp.ok
         THEN /\ podsIndex' = fetchPodsIndex(podsIndex, resp)
              /\ StartTier(1, [cyc EXCEPT !.pods = [fetched |-> TRUE,
                                                    index |-> resp.index]])
         ELSE /\ podsIndex' = podsIndex
              /\ Throw(cyc, "podsIndex")
  /\ UNCHANGED <<cycle, cpuTotalByContainer, tier2Locals, rows, dbVars>>
  /\ UNCHANGED call

\* ----------------------------------------------------------------- tier 1
MetricsApiRowsUnfiltered(items) ==
  [i \in 1..Len(items) |->
     Row(items[i].key, parseCpuToMillicores(items[i].cpu),
         parseMemoryToBytes(items[i].memory))]
RECURSIVE MetricsApiRows(_)
MetricsApiRows(items) ==
  IF items = <<>> THEN <<>>
  ELSE LET it == Head(items) IN
       (IF it.hasUid /\ it.hasName
          THEN <<Row(it.key, parseCpuToMillicores(it.cpu), parseMemoryToBytes(it.memory))>>
          ELSE <<>>)
       \o MetricsApiRows(Tail(items))

\* The keys of the items for which `if (!podUid || !podName) continue` fires.
SkippedItems(items) ==
  {items[i].key : i \in {j \in 1..Len(items) : ~items[j].hasUid \/ ~items[j].hasName}}

Tier1Done ==
  /\ pc = "tier1"
  /\ \E resp \in {Failure} \cup Tier1Responses :
       IF resp.ok
         THEN TierReturned(1, [cyc EXCEPT !.t1Skipped = SkippedItems(resp.items)],
                           MetricsApiRows(resp.items))
         ELSE TierRaised(1)
  /\ UNCHANGED <<cycle, podsIndex, cpuTotalByContainer, tier2Locals, dbVars>>
  /\ UNCHANGED call


\* ------------------------------------------------- node loops (tier 2, 3)
\* The `for (const node of nodeList.items)` loops await each node's k8sGet
\* inside the loop body: after the node list (i = 0) or after node i has been
\* processed, the request for node i + 1 is the only one issued.
NodeRequestsAllAtOnce(i) == IF i = 0 THEN 1..NumNodes ELSE {}
NodeRequestsAfter(i) == IF i < NumNodes THEN {i + 1} ELSE {}

NodeReqs(what, is) == {Req(what, NodeList[j]) : j \in is}

\* ----------------------------------------------------------------- tier 2
\* The body of the line loop of fetchViaCadvisor for one line: a line that
\* does not parse, or whose identity does not resolve, is passed over.
ScrapeLine(line, byRuntime, acc) ==
  LET parsed == parsePrometheusLine(line) IN
  IF parsed = NoResult THEN [acc EXCEPT !.skipped = @ \cup {"unparsed"}]
  ELSE LET id == ResolveIdentity(parsed.labels, byRuntime) IN
       IF ~Resolved(id) THEN [acc EXCEPT !.skipped = @ \cup {"unresolved"}]
       ELSE LET key == ContainerKey(id) IN
            IF parsed.metric = CpuMetric
              THEN [acc EXCEPT !.cpu[key] =
                      [totalSeconds |-> parsed.value, tsMs |-> parsed.timestamp]]
            ELSE IF parsed.metric = MemMetric
              THEN [acc EXCEPT !.mem[key] = [value |-> parsed.value]]
            ELSE acc

\* The line loop of fetchViaCadvisor: the latest sample of a series wins.
RECURSIVE ScrapeLines(_, _, _)
ScrapeLines(lines, byRuntime, acc) ==
  IF lines = <<>> THEN acc
  ELSE ScrapeLines(Tail(lines), byRuntime, ScrapeLine(Head(lines), byRuntime, acc))

\* The rate of fetchViaCadvisor: millicores from two counter observations.
CpuRateNoResetGuard(prev, cur) ==
  IF prev # NoEntry /\ cur.tsMs > prev.tsMs
    THEN MathRound((cur.totalSeconds - prev.totalSeconds) * 1000 * 1000, cur.tsMs - prev.tsMs)
    ELSE 0
CpuRate(prev, cur) ==
  IF prev # NoEntry /\ cur.totalSeconds >= prev.totalSeconds /\ cur.tsMs > prev.tsMs
    THEN Max(0, MathRound((cur.totalSeconds - prev.totalSeconds) * 1000 * 1000,
                          cur.tsMs - prev.tsMs))
    ELSE 0

\* Keys in the insertion order of the cpuTotals map (nodes are scraped in order).
KeyOrder == [i \in 1..NumNodes |-> HostedKey(NodeList[i])]

\* A key yields a row iff it has a CPU sample and its pod has a uid.
YieldsRowWithoutUid(k, idx, totals) == totals[k] # NoEntry
YieldsRow(k, idx, totals) == totals[k] # NoEntry /\ k \in idx

\* The row loop of fetchViaCadvisor, over the entries of cpuTotals.
RECURSIVE CadvisorRows(_, _, _, _, _)
CadvisorRows(keys, idx, ctr, totals, mem) ==
  IF keys = <<>> THEN <<>>
  ELSE LET k == Head(keys) IN
       (IF YieldsRow(k, idx, totals)
          THEN <<Row(k, CpuRate(ctr[k], totals[k]),
                     Max(0, IF mem[k] = NoEntry THEN 0 ELSE mem[k].value))>>
          ELSE <<>>)
       \o CadvisorRows(Tail(keys), idx, ctr, totals, mem)

\* cpuTotalByContainer.set(key, cpuInfo), for every key that yields a row.
CounterReplacedByRun(ctr, totals, idx) ==
  [k \in Keys |-> IF YieldsRow(k, idx, totals) THEN totals[k] ELSE NoEntry]
CounterAfterRunOnlyWhenRated(ctr, totals, idx) ==
  [k \in Keys |->
     IF YieldsRow(k, idx, totals) /\ CpuRate(ctr[k], totals[k]) > 0
       THEN totals[k] ELSE ctr[k]]
CounterAfterRun(ctr, totals, idx) ==
  [k \in Keys |-> IF YieldsRow(k, idx, totals) THEN totals[k] ELSE ctr[k]]

T2NodesDone ==
  /\ pc = "t2nodes"
  /\ \E ok \in BOOLEAN :
       IF ok
         THEN /\ pc' = "t2scrape"
              /\ nodeIdx' = 1
              /\ cpuTotals' = EmptyMap
              /\ memoryByContainer' = EmptyMap
              /\ skipped' = {}
              /\ inflight' = NodeReqs("cadvisor", NodeRequestsAfter(0))
              /\ UNCHANGED <<cyc, rows>>
         ELSE /\ TierRaised(2)
              /\ UNCHANGED tier2Locals
  /\ UNCHANGED <<cycle, podsIndex, cpuTotalByContainer, dbVars>>
  /\ UNCHANGED call

T2ScrapeDone ==
  /\ pc = "t2scrape"
  /\ \E resp \in {Failure} \cup CadvisorResponses(NodeList[nodeIdx]) :
       IF resp.ok
         THEN LET acc == ScrapeLines(resp.lines, ByRuntimeContainerId(podsIndex),
                                     [cpu |-> cpuTotals, mem |-> memoryByContainer,
                                      skipped |-> skipped]) IN
              /\ cpuTotals' = acc.cpu
              /\ memoryByContainer' = acc.mem
              /\ skipped' = acc.skipped
              /\ IF nodeIdx < NumNodes
                   THEN /\ nodeIdx' = nodeIdx + 1
                        /\ pc' = "t2scrape"
                        /\ inflight' = (inflight \ NodeReqs("cadvisor", {nodeIdx}))
                                         \cup NodeReqs("cadvisor", NodeRequestsAfter(nodeIdx))
                        /\ UNCHANGED <<cyc, rows, cpuTotalByContainer>>
                   ELSE /\ nodeIdx' = nodeIdx
                        /\ cpuTotalByContainer' =
                             CounterAfterRun(cpuTotalByContainer, acc.cpu, podsIndex)
                        /\ TierReturned(2, [cyc EXCEPT !.observed =
                                               [k \in Keys |->
                                                  IF YieldsRow(k, podsIndex, acc.cpu)
                                                    THEN acc.cpu[k] ELSE NoEntry]],
                             CadvisorRows(KeyOrder, podsIndex, cpuTotalByContainer,
                                          acc.cpu, acc.mem))
         ELSE /\ TierRaised(2)
              /\ cpuTotals' = EmptyMap
              /\ memoryByContainer' = EmptyMap
              /\ skipped' = {}
              /\ nodeIdx' = 0
              /\ UNCHANGED cpuTotalByContainer
  /\ UNCHANGED <<cycle, podsIndex, dbVars>>
  /\ UNCHANGED call

\* ----------------------------------------------------------------- tier 3
RECURSIVE SummaryRows(_, _)
SummaryRows(pods, idx) ==
  IF pods = <<>> THEN <<>>
  ELSE LET it == Head(pods) IN
       (IF it.refUid \/ it.key \in idx
          THEN <<Row(it.key, MathRound(it.usageNanoCores, 1000000), it.workingSetBytes)>>
          ELSE <<>>)
       \o SummaryRows(Tail(pods), idx)

T3NodesDone ==
  /\ pc = "t3nodes"
  /\ \E ok \in BOOLEAN :
       IF ok
         THEN /\ pc' = "t3summary"
              /\ nodeIdx' = 1
              /\ rows' = <<>>
              /\ inflight' = NodeReqs("summary", NodeRequestsAfter(0))
              /\ UNCHANGED <<cyc, cpuTotals, memoryByContainer, skipped>>
         ELSE /\ TierRaised(3)
              /\ UNCHANGED tier2Locals
  /\ UNCHANGED <<cycle, podsIndex, cpuTotalByContainer, dbVars>>
  /\ UNCHANGED call

T3SummaryDone ==
  /\ pc = "t3summary"
  /\ \E resp \in {Failure} \cup SummaryResponses(NodeList[nodeIdx]) :
       IF resp.ok
         THEN LET rs == rows \o SummaryRows(resp.pods, podsIndex) IN
              IF nodeIdx < NumNodes
                THEN /\ nodeIdx' = nodeIdx + 1
                     /\ rows' = rs
                     /\ pc' = "t3summary"
                     /\ inflight' = (inflight \ NodeReqs("summary", {nodeIdx}))
                                      \cup NodeReqs("summary", NodeRequestsAfter(nodeIdx))
                     /\ UNCHANGED cyc
                ELSE /\ nodeIdx' = nodeIdx
                     /\ TierReturned(3, cyc, rs)
         ELSE /\ TierRaised(3)
              /\ nodeIdx' = nodeIdx
  /\ UNCHANGED <<cycle, podsIndex, cpuTotalByContainer, cpuTotals, memoryByContainer,
                 skipped, dbVars>>
  /\ UNCHANGED call


\* ------------------------------------------------------------ collectOnce
\* Row as stored: sampled_at is now() of the cycle's transaction, id is unique.
Stored(r, c, i) ==
  [cycle |-> c, seq |-> i, key |-> r.key,
   podUid |-> PodUid(r.key), containerName |-> ContainerName(r.key),
   containerId |-> makeUuidFromString(SampleIdSource(PodUid(r.key), ContainerName(r.key))),
   cpuMillicores |-> r.cpuMillicores, memoryBytes |-> r.memoryBytes]

Range(q) == {q[i] : i \in 1..Len(q)}

\* `const rows = await fetchUsageRows(...)` has resolved: pool.connect() is
\* called.  The locals of fetchUsageRows and of the tier functions are gone.
AcquireConnection ==
  /\ pc = "fetched"
  /\ pc' = "connect"
  /\ inflight' = {Req("pool.connect", "")}
  /\ sampleCount' = 0
  /\ cpuTotals' = EmptyMap
  /\ memoryByContainer' = EmptyMap
  /\ nodeIdx' = 0
  /\ skipped' = {}
  /\ podsIndex' = {}
  /\ cyc' = [cyc EXCEPT !.pods = [fetched |-> FALSE]]
  /\ UNCHANGED <<cycle, cpuTotalByContainer, rows, store, connHeld, connTxn, txnRows,
                 insertIdx>>
  /\ UNCHANGED call

\* The statement awaited after BEGIN or after the INSERT of row i succeeded:
\* the INSERT of row i + 1, or COMMIT after the last row.
NextStatement(i) ==
  IF i < Len(rows)
    THEN /\ pc' = "insert"
         /\ insertIdx' = i + 1
         /\ inflight' = {Req("db.query", "INSERT")}
    ELSE /\ pc' = "commit"
         /\ insertIdx' = i
         /\ inflight' = {Req("db.query", "COMMIT")}

\* catch (error) { await db.query('ROLLBACK'); ... }
Catch(c, where) ==
  /\ pc' = "rollback"
  /\ inflight' = {Req("db.query", "ROLLBACK")}
  /\ cyc' = [c EXCEPT !.failedAt = where]

\* finally { db.release() }, then collectOnce resolves (out = "ok") or rejects.
FinallyOnlyOnSuccess(c, out) ==
  /\ pc' = "finished"
  /\ inflight' = {}
  /\ connHeld' = (out # "ok")
  /\ cyc' = [c EXCEPT !.released = IF out = "ok" THEN @ + 1 ELSE @, !.outcome = out]
Finally(c, out) ==
  /\ pc' = "finished"
  /\ inflight' = {}
  /\ connHeld' = FALSE
  /\ cyc' = [c EXCEPT !.released = @ + 1, !.outcome = out]

ConnectDone ==
  /\ pc = "connect"
  /\ \E ok \in BOOLEAN :
       IF ok
         THEN /\ connHeld' = TRUE
              /\ pc' = "begin"
              /\ inflight' = {Req("db.query", "BEGIN")}
              /\ cyc' = [cyc EXCEPT !.acquired = @ + 1, !.began = TRUE]
         ELSE /\ connHeld' = connHeld
              /\ Throw(cyc, "connect")
  /\ UNCHANGED <<cycle, podsIndex, cpuTotalByContainer, tier2Locals, rows, store, connTxn,
                 txnRows, insertIdx, sampleCount>>
  /\ UNCHANGED call

\* BEGIN on the pooled connection.  A connection whose last transaction was
\* left aborted refuses every statement but ROLLBACK.
BeginDone ==
  /\ pc = "begin"
  /\ \E ok \in (IF connTxn = "none" THEN BOOLEAN ELSE {FALSE}) :
       IF ok
         THEN /\ connTxn' = "open"
              /\ NextStatement(0)
              /\ cyc' = cyc
         ELSE /\ connTxn' = connTxn
              /\ insertIdx' = insertIdx
              /\ Catch(cyc, "BEGIN")
  /\ UNCHANGED <<cycle, podsIndex, cpuTotalByContainer, tier2Locals, rows, store, connHeld,
                 txnRows, sampleCount>>
  /\ UNCHANGED call

\* The effect of a successful INSERT issued after BEGIN: the row is pending in
\* the transaction and reaches the table at COMMIT.
InsertedAutocommit(st, tx, r) == [store |-> st \cup {r}, txnRows |-> tx]
InsertedUpsert(st, tx, r) ==
  [store |-> {x \in st : x.containerId # r.containerId}, txnRows |-> Append(tx, r)]
Inserted(st, tx, r) == [store |-> st, txnRows |-> Append(tx, r)]

InsertDone ==
  /\ pc = "insert"
  /\ \E ok \in BOOLEAN :
       IF ok
         THEN LET eff == Inserted(store, txnRows, Stored(rows[insertIdx], cycle, insertIdx)) IN
              /\ store' = eff.store
              /\ txnRows' = eff.txnRows
              /\ sampleCount' = sampleCount + 1
              /\ connTxn' = connTxn
              /\ NextStatement(insertIdx)
              /\ cyc' = cyc
         ELSE /\ connTxn' = "aborted"
              /\ Catch(cyc, "INSERT")
              /\ UNCHANGED <<store, txnRows, sampleCount, insertIdx>>
  /\ UNCHANGED <<cycle, podsIndex, cpuTotalByContainer, tier2Locals, rows, connHeld>>
  /\ UNCHANGED call

\* COMMIT is atomic: it makes every pending row visible, or (failing) none.
CommitDone ==
  /\ pc = "commit"
  /\ \E ok \in BOOLEAN :
       IF ok
         THEN /\ store' = store \cup Range(txnRows)
              /\ txnRows' = <<>>
              /\ connTxn' = "none"
              /\ Finally(cyc, "ok")
         ELSE /\ connTxn' = "aborted"
              /\ connHeld' = connHeld
              /\ Catch(cyc, "COMMIT")
              /\ UNCHANGED <<store, txnRows>>
  /\ UNCHANGED <<cycle, podsIndex, cpuTotalByContainer, tier2Locals, rows, insertIdx,
                 sampleCount>>
  /\ UNCHANGED call

\* ROLLBACK discards the pending rows.  If it fails its error replaces the
\* original one; the connection is released with its transaction still
\* aborted, or was closed and the pool opens a new one.
\* ROLLBACK acts on the database; the CounterState map of the process is not
\* part of the transaction.
CounterRolledBack(ctr, before) == before
CounterAfterRollback(ctr, before) == ctr

RollbackDone ==
  /\ pc = "rollback"
  /\ \E ok \in BOOLEAN :
       IF ok
         THEN /\ connTxn' = "none"
              /\ Finally(cyc, "failed")
         ELSE /\ connTxn' \in {connTxn, "none"}
              /\ Finally([cyc EXCEPT !.rollbackFailed = TRUE], "failed")
  /\ txnRows' = <<>>
  /\ cpuTotalByContainer' = CounterAfterRollback(cpuTotalByContainer, cyc.counterBefore)
  /\ UNCHANGED <<cycle, podsIndex, tier2Locals, rows, store, insertIdx, sampleCount>>
  /\ UNCHANGED call

\* ------------------------------------------------------------- main loop
\* The interval (the default of the environment variable), and what
\* Date.now() - startedAt may measure for a cycle, successful or failed:
\* less than the interval, exactly the interval, more than the interval.
SAMPLE_INTERVAL_SECONDS == 30
ElapsedMsValues == {29999, 30000, 45000}

\* const sleepMs = Math.max(0, SAMPLE_INTERVAL_SECONDS * 1000 - elapsedMs)
SleepMsUncompensated(elapsedMs) == SAMPLE_INTERVAL_SECONDS * 1000
SleepMs(elapsedMs) == Max(0, SAMPLE_INTERVAL_SECONDS * 1000 - elapsedMs)

\* collectOnce has settled: the loop logs the count or, in its catch, the
\* error; computes sleepMs and awaits sleep.
LoopTailNoCatch ==
  /\ pc = "finished"
  /\ pc' = (IF cyc.outcome = "failed" THEN "exited" ELSE "sleep")
  /\ inflight' = (IF cyc.outcome = "failed" THEN {} ELSE {Req("sleep", "")})
  /\ \E elapsedMs \in ElapsedMsValues :
       cyc' = [FreshCycle(store, cpuTotalByContainer) EXCEPT
                 !.outcome = "idle", !.elapsedMs = elapsedMs, !.sleepMs = SleepMs(elapsedMs)]
  /\ rows' = <<>>
  /\ podsIndex' = {}
  /\ UNCHANGED <<cycle, cpuTotalByContainer, tier2Locals, dbVars>>
  /\ UNCHANGED call
LoopTail ==
  /\ pc = "finished"
  /\ pc' = "sleep"
  /\ inflight' = {Req("sleep", "")}
  /\ \E elapsedMs \in ElapsedMsValues :
       cyc' = [FreshCycle(store, cpuTotalByContainer) EXCEPT
                 !.outcome = "idle", !.elapsedMs = elapsedMs, !.sleepMs = SleepMs(elapsedMs)]
  /\ rows' = <<>>
  /\ podsIndex' = {}
  /\ UNCHANGED <<cycle, cpuTotalByContainer, tier2Locals, dbVars>>
  /\ UNCHANGED call

\* The sleep timer fires: the next iteration of while (true).
Wake ==
  /\ pc = "sleep"
  /\ cycle < MaxCycles
  /\ BeginCycle

Next ==
  \/ Startup
  \/ PodsIndexDone
  \/ Tier1Done
  \/ T2NodesDone
  \/ T2ScrapeDone
  \/ T3NodesDone
  \/ T3SummaryDone
  \/ AcquireConnection
  \/ ConnectDone
  \/ BeginDone
  \/ InsertDone
  \/ CommitDone
  \/ RollbackDone
  \/ LoopTail
  \/ Wake

Spec == Init /\ [][Next]_vars

\* Every awaited call eventually returns or errors, and the timer fires.
LiveSpec == Spec /\ WF_vars(Next)


\* ================================================= functions on their own
\* A function of the program applied to one argument: the initial state holds
\* the argument, the one step computes the result as the code does.
Call(fn, arg) == [fn |-> fn, arg |-> arg, done |-> FALSE]
Return(c, ret) == [fn |-> c.fn, arg |-> c.arg, done |-> TRUE, ret |-> ret]
Returned(fn) == call.fn = fn /\ call.done

\* ------------------------------------- the line loop of fetchViaCadvisor
\* Lines of one node's exposition: series of the two containers, and lines
\* with no label block or with a value token that is not a number.
ScrapeInputLines ==
  { Sample(CpuMetric, "ns/p1/c", 1, 1500),
    Sample(CpuMetric, "ns/p1/c", 2, 3000),
    Sample(MemMetric, "ns/p1/c", 64, 1500),
    Sample(CpuMetric, "ns/p2/c", 1, 1500),
    Line(CpuMetric, FALSE, KeyLabels("ns/p1/c"), "2", 1500),
    Line(MemMetric, TRUE, KeyLabels("ns/p1/c"), "NaN", 1500),
    Line(MemMetric, TRUE, KeyLabels("ns/p1/c"), "abc", 1500),
    Line(CpuMetric, TRUE, KeyLabels("ns/p1/c"), "-", 1500) }
MaxLines == 3
Expositions == UNION {[1..n -> ScrapeInputLines] : n \in 1..MaxLines}

EmptyScrape == [cpu |-> EmptyMap, mem |-> EmptyMap, skipped |-> {}]

ScrapeInit ==
  /\ CollectorInit
  /\ call \in {Call("scrape", lines) : lines \in Expositions}

\* The for-of loop over metricsRaw.split('\n') runs to its end.
ScrapeRun ==
  /\ call.fn = "scrape"
  /\ ~call.done
  /\ call' = Return(call, ScrapeLines(call.arg, ByRuntimeContainerId(Keys), EmptyScrape))
  /\ UNCHANGED collectorVars

ScrapeSpec == ScrapeInit /\ [][ScrapeRun]_vars


\* ------------------------------------------- podHealth.ts: containers
InitializingReasonsWithoutCreating == {"PodInitializing"}
INITIALIZING_REASONS == {"ContainerCreating", "PodInitializing"}
ERROR_REASONS ==
  {"CrashLoopBackOff", "OOMKilled", "Error", "ImagePullBackOff", "ErrImagePull",
   "CreateContainerConfigError", "InvalidImageName", "RunContainerError"}

\* A Container as far as the classification reads it; lastState is optional.
Undefined == [undefined |-> TRUE]
Container(status, lastState, ready, restartCount) ==
  [status |-> status, lastState |-> lastState, ready |-> ready,
   restartCount |-> restartCount]

Min(a, b) == IF a <= b THEN a ELSE b
\* a || b on strings
OrElse(a, b) == IF a # "" THEN a ELSE b
\* reason.startsWith(prefix)
StartsWith(str, prefix) ==
  Len(str) >= Len(prefix) /\ SubSeq(str, 1, Len(prefix)) = prefix

Assessment(severity, label, score) ==
  [severity |-> severity, label |-> label, score |-> score]

\* container.restartCount >= 5
RestartsFatalAboveFive(restartCount) == restartCount > 5
RestartsFatal(restartCount) == restartCount >= 5

classifyContainerSeverity(container) ==
  LET reason == IF container.lastState = Undefined THEN "" ELSE container.lastState.reason
      isInitializing == reason \in INITIALIZING_REASONS \/ StartsWith(reason, "Init:")
  IN
  IF \/ container.status = "Terminated"
     \/ reason \in ERROR_REASONS
     \/ RestartsFatal(container.restartCount)
    THEN Assessment("error", OrElse(reason, "Container failure"),
                    100 + container.restartCount)
  ELSE IF container.status = "Waiting" /\ isInitializing
    THEN Assessment("initializing", OrElse(reason, "Initializing"), 20)
  ELSE IF container.status = "Waiting" \/ ~container.ready \/ container.restartCount > 0
    THEN Assessment("warning",
                    OrElse(reason, IF container.status = "Waiting" THEN "Waiting"
                                                                 ELSE "Not ready"),
                    40 + Min(container.restartCount, 10))
  ELSE Assessment("healthy", "Running", 0)

\* The containers classified: every status, no lastState or one with each of
\* the reasons the code names, a reason with the prefix Init: and one without
\* its colon, another reason and an empty one; restart counts around the
\* thresholds 0, 5 and 10.
ContainerStatuses == {"Running", "Waiting", "Terminated"}
Reasons == ERROR_REASONS \cup {"ContainerCreating", "PodInitializing", "Init:0/2", "Init",
                               "Completed", ""}
LastStates == {Undefined} \cup {[reason |-> r] : r \in Reasons}
RestartCounts == {0, 1, 4, 5, 6, 10, 11}
Containers ==
  {Container(st, ls, rd, rc) :
     st \in ContainerStatuses, ls \in LastStates, rd \in BOOLEAN, rc \in RestartCounts}

SeverityInit ==
  /\ CollectorInit
  /\ call \in {Call("classifyContainerSeverity", c) : c \in Containers}

SeverityRun ==
  /\ call.fn = "classifyContainerSeverity"
  /\ ~call.done
  /\ call' = Return(call, classifyContainerSeverity(call.arg))
  /\ UNCHANGED collectorVars

SeveritySpec == SeverityInit /\ [][SeverityRun]_vars

\* ------------------------------------------------- podHealth.ts: pods
ErrorStatusesWithoutOOMKilled == {"Error", "CrashLoopBackOff"}
errorStatuses == {"Error", "OOMKilled", "CrashLoopBackOff"}

\* attentionReason: string | null
Null == "<null>"
PodHealth(health, attentionScore, attentionReason) ==
  [health |-> health, attentionScore |-> attentionScore,
   attentionReason |-> attentionReason]

\* containerAssessments.reduce((max, item) => item.score > max.score ? item : max, ...)
RECURSIVE MaxAssessment(_, _)
MaxAssessment(assessments, max) ==
  IF assessments = <<>> THEN max
  ELSE LET item == Head(assessments) IN
       MaxAssessment(Tail(assessments), IF item.score > max.score THEN item ELSE max)

\* Some container of the pod has a log entry of level error in containerLogs
\* (containerLogs.get(c.id) ?? []).
HasErrorLogsIgnored(pod, containerLogs) == FALSE
hasErrorLogs(pod, containerLogs) ==
  \E i \in 1..Len(pod.containers) :
    LET logs == IF pod.containers[i].id \in DOMAIN containerLogs
                  THEN containerLogs[pod.containers[i].id] ELSE <<>> IN
    \E j \in 1..Len(logs) : logs[j].level = "error"

computePodHealth(pod, containerLogs) ==
  IF pod.status \in errorStatuses THEN PodHealth("error", 200, pod.status)
  ELSE
    LET containerAssessments ==
          [i \in 1..Len(pod.containers) |-> classifyContainerSeverity(pod.containers[i])]
        maxAssessment == MaxAssessment(containerAssessments, Assessment("healthy", "", 0))
    IN
    IF maxAssessment.severity = "error"
      THEN PodHealth("error", maxAssessment.score, maxAssessment.label)
    ELSE IF hasErrorLogs(pod, containerLogs)
      THEN PodHealth("warning", 60, "Error logs detected")
    ELSE IF pod.status = "Pending" \/ maxAssessment.severity = "warning"
      THEN PodHealth("warning", Max(maxAssessment.score, 35),
                     IF maxAssessment.label # "" THEN maxAssessment.label
                     ELSE IF pod.status = "Pending" THEN "Pending scheduling" ELSE Null)
    ELSE IF maxAssessment.severity = "initializing"
      THEN PodHealth("warning", maxAssessment.score, maxAssessment.label)
    ELSE PodHealth("healthy", 0, Null)

\* The pods assessed: every pod status; up to MaxContainers containers, each
\* healthy, not ready, initializing, failed (two that tie at score 100) or
\* failed with more than 100 restarts; for each container no entry in
\* containerLogs, an entry without error lines or one with an error line.
MaxContainers == 2
PodStatuses ==
  {"Running", "Pending", "Error", "OOMKilled", "CrashLoopBackOff", "Terminated", "Unknown"}
PodContainers ==
  { Container("Running", Undefined, TRUE, 0),
    Container("Running", Undefined, FALSE, 1),
    Container("Waiting", [reason |-> "ContainerCreating"], FALSE, 0),
    Container("Terminated", [reason |-> "OOMKilled"], FALSE, 0),
    Container("Waiting", [reason |-> "Error"], FALSE, 0),
    Container("Running", [reason |-> "CrashLoopBackOff"], FALSE, 101) }
LogEntry(level) == [level |-> level]
NoLogs == [entry |-> FALSE]
Logs(entries) == [entry |-> TRUE, logs |-> entries]
LogOptions == {NoLogs, Logs(<<LogEntry("info")>>), Logs(<<LogEntry("warn"), LogEntry("error")>>)}
ContainerIdOf(i) == "c" \o ToString(i)
PodInput(status, slots) ==
  [ pod |-> [status |-> status,
             containers |-> [i \in 1..Len(slots) |->
                               [id |-> ContainerIdOf(i)] @@ slots[i][1]]],
    containerLogs |-> [id \in {ContainerIdOf(i) : i \in {j \in 1..Len(slots) :
                                                          slots[j][2].entry}} |->
                         slots[CHOOSE i \in 1..Len(slots) : ContainerIdOf(i) = id][2].logs] ]
PodInputs ==
  {PodInput(st, slots) :
     st \in PodStatuses,
     slots \in UNION {[1..n -> PodContainers \X LogOptions] : n \in 0..MaxContainers}}

PodHealthInit ==
  /\ CollectorInit
  /\ call \in {Call("computePodHealth", in) : in \in PodInputs}

PodHealthRun ==
  /\ call.fn = "computePodHealth"
  /\ ~call.done
  /\ call' = Return(call, computePodHealth(call.arg.pod, call.arg.containerLogs))
  /\ UNCHANGED collectorVars

PodHealthSpec == PodHealthInit /\ [][PodHealthRun]_vars


\* ------------------------------------------ podHealth.ts: triage order
\* new Date(iso).getTime() for a UTC timestamp of the first day of the epoch,
\* 1970-01-01THH:MM:SS[.mmm]Z: the milliseconds into that day; two spellings
\* of one instant give one number.
TwoDigits(str, at) ==
  10 * DigitValue(SubSeq(str, at, at)) + DigitValue(SubSeq(str, at + 1, at + 1))
DateGetTime(iso) ==
  LET hours == TwoDigits(iso, 12)
      minutes == TwoDigits(iso, 15)
      seconds == TwoDigits(iso, 18)
      millis == IF SubSeq(iso, 20, 20) = "."
                  THEN 10 * TwoDigits(iso, 21) + DigitValue(SubSeq(iso, 23, 23))
                  ELSE 0
  IN ((hours * 60 + minutes) * 60 + seconds) * 1000 + millis

priority(health) ==
  CASE health = "error" -> 0
    [] health = "warning" -> 1
    [] health = "healthy" -> 2

\* b.attentionScore - a.attentionScore
AttentionDiffAscending(a, b) == a.attentionScore - b.attentionScore
AttentionDiff(a, b) == b.attentionScore - a.attentionScore

\* The comparator handed to sort.
HealthCompare(a, b) ==
  LET healthDiff == priority(a.health) - priority(b.health)
      attentionDiff == AttentionDiff(a, b)
  IN IF healthDiff # 0 THEN healthDiff
     ELSE IF attentionDiff # 0 THEN attentionDiff
     ELSE DateGetTime(b.createdAt) - DateGetTime(a.createdAt)

\* Array.prototype.sort under HealthCompare, a consistent comparator: the
\* stable order. One element is placed behind every element that does not
\* compare after it.
InsertSorted(sorted, item) ==
  LET after == {i \in 1..Len(sorted) : HealthCompare(sorted[i], item) > 0}
      at == IF after = {} THEN Len(sorted) + 1
            ELSE CHOOSE i \in after : \A j \in after : i <= j
  IN SubSeq(sorted, 1, at - 1) \o <<item>> \o SubSeq(sorted, at, Len(sorted))

RECURSIVE ArraySort(_, _)
ArraySort(array, done) ==
  IF array = <<>> THEN done
  ELSE ArraySort(Tail(array), InsertSorted(done, Head(array)))

\* [...pods].sort(compare): the copy is sorted, the argument array keeps its
\* elements in place.
sortPodsByHealth(pods) ==
  LET copy == pods IN
  [pods |-> pods, ret |-> ArraySort(copy, <<>>)]

\* The pods sorted: every health, scores that tie and differ within one
\* health, a warning with a score above an error's, creation times that tie
\* (in two spellings) and differ.
ClassifiedPod(name, health, attentionScore, createdAt) ==
  [name |-> name, health |-> health, attentionScore |-> attentionScore,
   createdAt |-> createdAt]
ClassifiedPods ==
  { ClassifiedPod("a", "error", 200, "1970-01-01T00:00:01Z"),
    ClassifiedPod("b", "error", 100, "1970-01-01T00:00:02Z"),
    ClassifiedPod("c", "error", 100, "1970-01-01T00:00:03Z"),
    ClassifiedPod("d", "warning", 150, "1970-01-01T00:00:03Z"),
    ClassifiedPod("e", "warning", 60, "1970-01-01T00:00:01.000Z"),
    ClassifiedPod("f", "warning", 60, "1970-01-01T00:00:01Z"),
    ClassifiedPod("g", "healthy", 0, "1970-01-01T00:00:02Z"),
    ClassifiedPod("h", "healthy", 0, "1970-01-01T00:00:03Z") }
MaxPods == 3
PodLists == UNION {[1..n -> ClassifiedPods] : n \in 0..MaxPods}

SortInit ==
  /\ CollectorInit
  /\ call \in {Call("sortPodsByHealth", pods) : pods \in PodLists}

SortRun ==
  /\ call.fn = "sortPodsByHealth"
  /\ ~call.done
  /\ LET r == sortPodsByHealth(call.arg) IN
     call' = [Return(call, r.ret) EXCEPT !.arg = r.pods]
  /\ UNCHANGED collectorVars

SortSpec == SortInit /\ [][SortRun]_vars

\* --------------------------------------- version impact: percent delta
\* A JavaScript number: a fraction in lowest terms with a positive
\* denominator, NaN, or an infinity; `number | null` adds NullNumber.
RECURSIVE Gcd(_, _)
Gcd(a, b) == IF b = 0 THEN a ELSE Gcd(b, a % b)
Abs(n) == IF n < 0 THEN -n ELSE n
Num(n, d) ==
  LET g == Gcd(Abs(n), Abs(d))
      s == IF d < 0 THEN -1 ELSE 1
  IN [num |-> s * (n \div g), den |-> s * (d \div g)]
Infinity(sign) == [inf |-> sign]
NullNumber == [null |-> TRUE]
IsFinite(x) == DOMAIN x = {"num", "den"}
Sign(x) == IF x.num > 0 THEN 1 ELSE IF x.num < 0 THEN -1 ELSE 0

\* a + b, a - b, a * b, a / b on finite numbers; x / 0 is an infinity and
\* 0 / 0 is NaN.
Plus(a, b) == Num(a.num * b.den + b.num * a.den, a.den * b.den)
Minus(a, b) == Num(a.num * b.den - b.num * a.den, a.den * b.den)
Times(a, b) == Num(a.num * b.num, a.den * b.den)
Divide(a, b) ==
  IF b.num # 0 THEN Num(a.num * b.den, a.den * b.num)
  ELSE IF a.num = 0 THEN NaN
  ELSE Infinity(Sign(a))
AtLeast(a, b) == a.num * b.den >= b.num * a.den
Zero == Num(0, 1)
Hundred == Num(100, 1)

DeltaPercentUnguarded(current, baseline) ==
  IF ~IsFinite(current) \/ ~IsFinite(baseline) THEN NullNumber
  ELSE LET q == Divide(Minus(current, baseline), baseline) IN
       IF IsFinite(q) THEN Times(q, Hundred) ELSE q
deltaPercent(current, baseline) ==
  IF ~IsFinite(current) \/ ~IsFinite(baseline) THEN NullNumber
  ELSE IF baseline = Zero THEN (IF current = Zero THEN Zero ELSE NullNumber)
  ELSE Times(Divide(Minus(current, baseline), baseline), Hundred)

\* The p95 values compared: zero, equal and different values on both sides,
\* a negative one, a fraction (an interpolated percentile), NaN and Infinity.
P95Values ==
  {Zero, Num(50, 1), Num(90, 1), Num(100, 1), Num(110, 1), Num(130, 1),
   Num(-5, 1), Num(1, 2), NaN, Infinity(1)}

DeltaInit ==
  /\ CollectorInit
  /\ call \in {Call("deltaPercent", [current |-> c, baseline |-> b]) :
                 c \in P95Values, b \in P95Values}

DeltaRun ==
  /\ call.fn = "deltaPercent"
  /\ ~call.done
  /\ call' = Return(call, deltaPercent(call.arg.current, call.arg.baseline))
  /\ UNCHANGED collectorVars

DeltaSpec == DeltaInit /\ [][DeltaRun]_vars

\* ------------------------------------ version impact: useImpactScores
\* percentile(values, p): linear interpolation between the ranks of the
\* ascending values; 0 for no values.
RECURSIVE SortAscending(_)
SortAscending(values) ==
  IF values = <<>> THEN <<>>
  ELSE LET least == CHOOSE i \in 1..Len(values) :
                      /\ \A j \in 1..Len(values) : AtLeast(values[j], values[i])
                      /\ \A j \in 1..(i - 1) : values[j] # values[i]
       IN <<values[least]>> \o
          SortAscending(SubSeq(values, 1, least - 1) \o
                        SubSeq(values, least + 1, Len(values)))
Floor(x) == x.num \div x.den
Ceil(x) == -((-x.num) \div x.den)
percentile(values, p) ==
  IF Len(values) = 0 THEN Zero
  ELSE LET sorted == SortAscending(values)
           rank == Times(Divide(Num(p, 1), Hundred), Num(Len(sorted) - 1, 1))
           low == Floor(rank)
           high == Ceil(rank)
           weight == Minus(rank, Num(low, 1))
       IN IF low = high THEN sorted[low + 1]
          ELSE Plus(Times(sorted[low + 1], Minus(Num(1, 1), weight)),
                    Times(sorted[high + 1], weight))

ClassifyDegradedAboveTen(score) ==
  IF score = NullNumber THEN "unknown"
  ELSE IF ~AtLeast(Num(10, 1), score) THEN "degraded"
  ELSE IF AtLeast(Num(-10, 1), score) THEN "improved"
  ELSE "stable"
classifyImpactStatus(score) ==
  IF score = NullNumber THEN "unknown"
  ELSE IF AtLeast(score, Num(10, 1)) THEN "degraded"
  ELSE IF AtLeast(Num(-10, 1), score) THEN "improved"
  ELSE "stable"

\* Date.now() of the comparison and the window of samples it reads.
Now == DateGetTime("1970-01-01T01:00:00Z")
WINDOW_MS == 30 * 60 * 1000
ResourceSample(sampledAt, cpuMillicores, memoryBytes) ==
  [sampledAt |-> sampledAt, cpuMillicores |-> Num(cpuMillicores, 1),
   memoryBytes |-> Num(memoryBytes, 1)]
InWindow(sample, windowStartMs) == DateGetTime(sample.sampledAt) >= windowStartMs
SamplesOf(samplesByContainerId, containerId) ==
  IF containerId \in DOMAIN samplesByContainerId
    THEN samplesByContainerId[containerId] ELSE <<>>
Project(samples, field) == [i \in 1..Len(samples) |-> samples[i][field]]
NoStats == [null |-> TRUE]
\* getP95Stats of the hook and getContainerStats of the panel
P95Stats(samplesByContainerId, containerId, windowStartMs) ==
  LET samples == SelectSeq(SamplesOf(samplesByContainerId, containerId),
                           LAMBDA s : InWindow(s, windowStartMs))
  IN IF Len(samples) = 0 THEN NoStats
     ELSE [cpuP95 |-> percentile(Project(samples, "cpuMillicores"), 95),
           memoryP95 |-> percentile(Project(samples, "memoryBytes"), 95)]

ContainerImpact(status, score, cpuDeltaPercent, memoryDeltaPercent) ==
  [status |-> status, score |-> score, cpuDeltaPercent |-> cpuDeltaPercent,
   memoryDeltaPercent |-> memoryDeltaPercent]

\* deltas.reduce((sum, item) => sum + item, 0) / deltas.length, null for none
RECURSIVE Sum(_)
Sum(numbers) == IF numbers = <<>> THEN Zero ELSE Plus(Head(numbers), Sum(Tail(numbers)))
MeanOrNull(numbers) ==
  IF Len(numbers) > 0 THEN Divide(Sum(numbers), Num(Len(numbers), 1)) ELSE NullNumber

ByName(containers, name) ==
  LET at == {i \in 1..Len(containers) : containers[i].name = name} IN
  IF at = {} THEN Undefined
  ELSE containers[CHOOSE i \in at : \A j \in at : j <= i]

\* [...new Set([...current names, ...baseline names])]
AllNames(current, baseline) ==
  Project(current, "name") \o
  SelectSeq(Project(baseline, "name"),
            LAMBDA n : \A i \in 1..Len(current) : current[i].name # n)

\* const containerImpacts: Record<string, ContainerImpact> = {}
NoImpacts == [id \in {} |-> NullNumber]

\* `const name = value; body`: the value is computed once and the body reads it.
Const(value, Body(_)) == CHOOSE result \in {Body(v) : v \in {value}} : TRUE

\* One pass of the loop over allNames for one comparison pair.
RECURSIVE ScoreNames(_, _, _, _, _)
ScoreNames(names, current, baseline, samples, acc) ==
  IF names = <<>> THEN acc
  ELSE
    LET name == Head(names)
        currentContainer == ByName(current, name)
        baselineContainer == ByName(baseline, name)
        Continue(next) == ScoreNames(Tail(names), current, baseline, samples, next)
    IN
    IF currentContainer = Undefined \/ baselineContainer = Undefined
      THEN Continue(acc)
    ELSE
      Const(<<P95Stats(samples, currentContainer.id, Now - WINDOW_MS),
              P95Stats(samples, baselineContainer.id, Now - WINDOW_MS)>>,
            LAMBDA stats :
      LET currentStats == stats[1]
          baselineStats == stats[2]
      IN
      IF currentStats = NoStats \/ baselineStats = NoStats
        THEN Const([acc EXCEPT !.containerImpacts =
                      (currentContainer.id :>
                         ContainerImpact("unknown", NullNumber, NullNumber, NullNumber))
                      @@ @],
                   Continue)
      ELSE
        Const(<<deltaPercent(currentStats.cpuP95, baselineStats.cpuP95),
                deltaPercent(currentStats.memoryP95, baselineStats.memoryP95)>>,
              LAMBDA both :
        LET cpuDelta == both[1]
            memoryDelta == both[2]
            deltas == SelectSeq(both, LAMBDA d : d # NullNumber)
        IN
        Const(MeanOrNull(deltas), LAMBDA score :
        LET status == classifyImpactStatus(score) IN
        Const([containerImpacts |->
                 (currentContainer.id :>
                    ContainerImpact(status, score, cpuDelta, memoryDelta))
                 @@ acc.containerImpacts,
               perContainerScores |->
                 IF score # NullNumber THEN Append(acc.perContainerScores, score)
                 ELSE acc.perContainerScores,
               degradedCount |-> acc.degradedCount + (IF status = "degraded" THEN 1 ELSE 0),
               improvedCount |-> acc.improvedCount + (IF status = "improved" THEN 1 ELSE 0)],
              Continue))))

\* The impacts of one comparison pair: its containers' and the pod's.
ImpactScores(pair, samplesByContainerId) ==
  LET current == pair.currentPod.containers
      baseline == IF pair.baselinePod = Undefined THEN <<>>
                  ELSE pair.baselinePod.containers
  IN
  Const(ScoreNames(AllNames(current, baseline), current, baseline,
                   samplesByContainerId,
                   [containerImpacts |-> NoImpacts, perContainerScores |-> <<>>,
                    degradedCount |-> 0, improvedCount |-> 0]),
        LAMBDA done :
  Const(MeanOrNull(done.perContainerScores), LAMBDA podScore :
     [containerImpacts |-> done.containerImpacts,
      podImpact |-> [status |-> classifyImpactStatus(podScore), score |-> podScore,
                     degradedCount |-> done.degradedCount,
                     improvedCount |-> done.improvedCount]]))

\* The samples of one container: none at all, one older than the window,
\* one inside it at several usage levels (equal, 10 percent up and down,
\* zero, zero CPU only), one on the window's edge next to an older one, and two inside it
\* (the percentile interpolates).
SampleOptions ==
  { <<>>,
    <<ResourceSample("1970-01-01T00:20:00Z", 500, 5000)>>,
    <<ResourceSample("1970-01-01T00:45:00Z", 100, 1000)>>,
    <<ResourceSample("1970-01-01T00:45:00Z", 110, 1100)>>,
    <<ResourceSample("1970-01-01T00:45:00Z", 90, 900)>>,
    <<ResourceSample("1970-01-01T00:45:00Z", 0, 0)>>,
    <<ResourceSample("1970-01-01T00:45:00Z", 0, 1000)>>,
    <<ResourceSample("1970-01-01T00:30:00Z", 130, 1000),
      ResourceSample("1970-01-01T00:20:00Z", 500, 5000)>>,
    <<ResourceSample("1970-01-01T00:45:00Z", 100, 1000),
      ResourceSample("1970-01-01T00:50:00Z", 120, 1000)>> }

\* The container names of a comparison; each is in the current pod, in the
\* baseline pod, in both or in neither.
ContainerNames == <<"app", "sidecar">>
OneSample == <<ResourceSample("1970-01-01T00:45:00Z", 100, 1000)>>
NameSlot(inCurrent, inBaseline, currentSamples, baselineSamples) ==
  [current |-> inCurrent, baseline |-> inBaseline,
   currentSamples |-> currentSamples, baselineSamples |-> baselineSamples]
NameSlots ==
  {NameSlot(FALSE, FALSE, <<>>, <<>>), NameSlot(TRUE, FALSE, OneSample, <<>>),
   NameSlot(FALSE, TRUE, <<>>, OneSample)}
  \cup {NameSlot(TRUE, TRUE, c, b) : c \in SampleOptions, b \in SampleOptions}
SideContainers(slots, side) ==
  LET names == SelectSeq(ContainerNames, LAMBDA n : slots[n][side]) IN
  [i \in 1..Len(names) |-> [name |-> names[i], id |-> side \o "-" \o names[i]]]
Comparison(slots) ==
  LET current == SideContainers(slots, "current")
      baseline == SideContainers(slots, "baseline")
  IN
  [ pair |-> [currentPod |-> [id |-> "pod-current", containers |-> current],
              baselinePod |-> IF baseline = <<>> THEN Undefined
                              ELSE [id |-> "pod-baseline", containers |-> baseline]],
    samplesByContainerId |->
      [id \in {c.id : c \in Range(current) \cup Range(baseline)} |->
         LET n == CHOOSE n \in Range(ContainerNames) :
                    id \in {"current-" \o n, "baseline-" \o n}
         IN IF id = "current-" \o n THEN slots[n].currentSamples
            ELSE slots[n].baselineSamples] ]
Comparisons == {Comparison(slots) : slots \in [Range(ContainerNames) -> NameSlots]}

ImpactInit ==
  /\ CollectorInit
  /\ call \in {Call("useImpactScores", c) : c \in Comparisons}

ImpactRun ==
  /\ call.fn = "useImpactScores"
  /\ ~call.done
  /\ call' = Return(call, ImpactScores(call.arg.pair, call.arg.samplesByContainerId))
  /\ UNCHANGED collectorVars

ImpactSpec == ImpactInit /\ [][ImpactRun]_vars

\* ------------------------------- version impact: the panel's comparison
\* WINDOW_MS of VersionImpactPanel, by window preset.
WindowPresets == {"5m", "30m", "24h"}
PanelWindowMs(windowPreset) ==
  CASE windowPreset = "5m" -> 5 * 60 * 1000
    [] windowPreset = "30m" -> 30 * 60 * 1000
    [] windowPreset = "24h" -> 24 * 60 * 60 * 1000

\* stats?.field ?? 0
FieldOrZero(stats, field) == IF stats = NoStats THEN Zero ELSE stats[field]

\* rows: one per container name of either snapshot, in sorted order
\* (ContainerNames is in that order).
ComparisonRows(currentSnapshot, baselineSnapshot, samplesByContainerId, windowPreset) ==
  IF currentSnapshot = Undefined \/ baselineSnapshot = Undefined THEN <<>>
  ELSE
    LET windowStartMs == Now - PanelWindowMs(windowPreset)
        names == SelectSeq(ContainerNames,
                   LAMBDA n : \/ ByName(currentSnapshot.containers, n) # Undefined
                              \/ ByName(baselineSnapshot.containers, n) # Undefined)
        row(name) ==
          LET currentContainer == ByName(currentSnapshot.containers, name)
              baselineContainer == ByName(baselineSnapshot.containers, name)
              currentStats == IF currentContainer # Undefined
                                THEN P95Stats(samplesByContainerId, currentContainer.id,
                                              windowStartMs)
                              ELSE NoStats
              baselineStats == IF baselineContainer # Undefined
                                 THEN P95Stats(samplesByContainerId, baselineContainer.id,
                                               windowStartMs)
                               ELSE NoStats
          IN [name |-> name, currentStats |-> currentStats,
              baselineStats |-> baselineStats,
              cpuDelta |-> deltaPercent(FieldOrZero(currentStats, "cpuP95"),
                                        FieldOrZero(baselineStats, "cpuP95")),
              memoryDelta |-> deltaPercent(FieldOrZero(currentStats, "memoryP95"),
                                           FieldOrZero(baselineStats, "memoryP95"))]
    IN [i \in 1..Len(names) |-> row(names[i])]

RowsInit ==
  /\ CollectorInit
  /\ call \in {Call("rows", [comparison |-> c, windowPreset |-> w]) :
                 c \in Comparisons, w \in WindowPresets}

RowsRun ==
  /\ call.fn = "rows"
  /\ ~call.done
  /\ call' = Return(call,
               ComparisonRows(call.arg.comparison.pair.currentPod,
                              call.arg.comparison.pair.baselinePod,
                              call.arg.comparison.samplesByContainerId,
                              call.arg.windowPreset))
  /\ UNCHANGED collectorVars

RowsSpec == RowsInit /\ [][RowsRun]_vars

\* ------------------------------- deployments and their version snapshots
\* [...array].sort((a, b) => getTime(b.createdAt) - getTime(a.createdAt)): the
\* stable order, newest first.
InsertByCreatedDesc(sorted, item) ==
  LET older == {i \in 1..Len(sorted) :
                  DateGetTime(item.createdAt) - DateGetTime(sorted[i].createdAt) > 0}
      at == IF older = {} THEN Len(sorted) + 1
            ELSE CHOOSE i \in older : \A j \in older : i <= j
  IN SubSeq(sorted, 1, at - 1) \o <<item>> \o SubSeq(sorted, at, Len(sorted))
RECURSIVE SortByCreatedDesc(_, _)
SortByCreatedDesc(array, done) ==
  IF array = <<>> THEN done
  ELSE SortByCreatedDesc(Tail(array), InsertByCreatedDesc(done, Head(array)))

SortPodsAsGiven(pods) == pods
sortPodsByCreatedDesc(pods) == SortByCreatedDesc(pods, <<>>)

\* pod.deploymentName || 'unknown'
DeploymentKey(pod) == OrElse(pod.deploymentName, "unknown")
\* groupPodsByDeployment, as far as the snapshots read it: the pods of each
\* deployment name, newest first.
groupPodsByDeployment(pods) ==
  [name \in {DeploymentKey(pods[i]) : i \in 1..Len(pods)} |->
     sortPodsByCreatedDesc(SelectSeq(pods, LAMBDA pod : DeploymentKey(pod) = name))]

\* pod.version ?? 'unknown'
VersionOrUnknown(pod) == IF pod.version = Null THEN "unknown" ELSE pod.version
VersionSnapshot(pod) ==
  [version |-> VersionOrUnknown(pod), podName |-> pod.name, createdAt |-> pod.createdAt]
\* The loop filling byVersion, a Map in insertion order: the first pod of a
\* version makes its snapshot.
RECURSIVE FirstByVersion(_, _)
FirstByVersion(pods, byVersion) ==
  IF pods = <<>> THEN byVersion
  ELSE FirstByVersion(Tail(pods),
         IF \E i \in 1..Len(byVersion) :
              byVersion[i].version = VersionOrUnknown(Head(pods))
           THEN byVersion
           ELSE Append(byVersion, VersionSnapshot(Head(pods))))
SNAPSHOT_LIMIT == 10
versionSnapshots(deployment) ==
  LET sorted == SortByCreatedDesc(FirstByVersion(deployment, <<>>), <<>>) IN
  SubSeq(sorted, 1, Min(SNAPSHOT_LIMIT, Len(sorted)))

\* The pods grouped, in the order they are given (not by age): deployment web
\* with an old pod of version v11 first, then one pod for each of the
\* versions v01..v11 from oldest to newest, and a pod without version label
\* as old as the pod of v04; one pod of deployment api, the newest of all.
VersionedPod(name, deploymentName, version, createdAt) ==
  [name |-> name, deploymentName |-> deploymentName, version |-> version,
   createdAt |-> createdAt]
PodPool ==
  << VersionedPod("web-11-old", "web", "v11", "1970-01-01T00:00:01Z"),
     VersionedPod("web-01", "web", "v01", "1970-01-01T00:00:02Z"),
     VersionedPod("web-02", "web", "v02", "1970-01-01T00:00:03Z"),
     VersionedPod("web-03", "web", "v03", "1970-01-01T00:00:04Z"),
     VersionedPod("web-04", "web", "v04", "1970-01-01T00:00:05Z"),
     VersionedPod("web-05", "web", "v05", "1970-01-01T00:00:06Z"),
     VersionedPod("web-06", "web", "v06", "1970-01-01T00:00:07Z"),
     VersionedPod("web-07", "web", "v07", "1970-01-01T00:00:08Z"),
     VersionedPod("web-08", "web", "v08", "1970-01-01T00:00:09Z"),
     VersionedPod("web-09", "web", "v09", "1970-01-01T00:00:10Z"),
     VersionedPod("web-10", "web", "v10", "1970-01-01T00:00:11Z"),
     VersionedPod("web-11", "web", "v11", "1970-01-01T00:00:12Z"),
     VersionedPod("web-00", "web", Null, "1970-01-01T00:00:05.000Z"),
     VersionedPod("api-01", "api", "v01", "1970-01-01T00:00:13Z") >>
PodSelections ==
  {SelectSeq(PodPool, LAMBDA pod : pod.name \in names) :
     names \in SUBSET {PodPool[i].name : i \in 1..Len(PodPool)}}

SnapshotsInit ==
  /\ CollectorInit
  /\ call \in {Call("versionSnapshots", pods) : pods \in PodSelections}

\* The dashboard groups the pods; the panel of each deployment lists its
\* version snapshots.
SnapshotsRun ==
  /\ call.fn = "versionSnapshots"
  /\ ~call.done
  /\ LET deployments == groupPodsByDeployment(call.arg) IN
     call' = Return(call, [name \in DOMAIN deployments |->
                             versionSnapshots(deployments[name])])
  /\ UNCHANGED collectorVars

SnapshotsSpec == SnapshotsInit /\ [][SnapshotsRun]_vars

\* ============================================================ properties
Tier2Served == pc = "fetched" /\ cyc.served = 2

\* C1: the tiers are attempted in the order 1, 2, 3; tier k+1 is attempted
\* only after tier k raised; the rows fetchUsageRows returns are those of the
\* first tier that completed without raising, and no later tier is attempted
\* (Tier 1 raising and Tier 2 completing means Tier 3 is never requested).
C1_TierOrder ==
  /\ cyc.attempted \in {<<>>, <<1>>, <<1, 2>>, <<1, 2, 3>>}
  /\ cyc.raised \subseteq Range(cyc.attempted)
  /\ \A t \in {2, 3} : t \in Range(cyc.attempted) => (t - 1) \in cyc.raised
  /\ cyc.served # 0 =>
       /\ cyc.attempted = [i \in 1..cyc.served |-> i]
       /\ cyc.raised = 1..(cyc.served - 1)
       /\ pc = "fetched" => rows = cyc.tierRows
  /\ Tier2Served =>
       rows = CadvisorRows(KeyOrder, podsIndex, cyc.counterBefore, cpuTotals,
                           memoryByContainer)
  /\ (1 \in cyc.raised /\ cyc.served = 2) =>
       /\ 3 \notin Range(cyc.attempted)
       /\ \A r \in inflight : r.op # "summary" /\ r # TierRequest(3)

C1_Witness ==
  /\ Tier2Served
  /\ cyc.attempted = <<1, 2>>
  /\ cyc.raised = {1}
  /\ rows # <<>>

\* C2: a cycle's rows are persisted all or none.  When collectOnce has failed
\* the store is what it was when the cycle started; when it has succeeded the
\* store has gained exactly the cycle's rows; in no state does the store hold
\* a strict non-empty subset of the cycle's rows, and the rows of earlier
\* cycles are never changed.
CycleRows == {Stored(rows[i], cycle, i) : i \in 1..Len(rows)}
StoredThisCycle == {r \in store : r.cycle = cycle}
C2_AllOrNothing ==
  /\ store \ StoredThisCycle = {r \in cyc.storeBefore : r.cycle # cycle}
  /\ cyc.outcome \in {"running", "ok", "failed"} =>
       /\ StoredThisCycle = {} \/ StoredThisCycle = CycleRows
       /\ cyc.outcome = "failed" => store = cyc.storeBefore
       /\ cyc.outcome = "ok" => store = cyc.storeBefore \cup CycleRows
       /\ cyc.outcome # "running" => txnRows = <<>>

C2_Witness ==
  /\ pc = "finished"
  /\ cyc.failedAt = "INSERT"
  /\ insertIdx = 2
  /\ cyc.storeBefore # {}
  /\ store = cyc.storeBefore

\* C3: every row of a Tier 2 run reports, for its key with the run's
\* observation (s1, t1) and the CounterState entry (s0, t0) the run found:
\* round(1000 * (s1 - s0) / ((t1 - t0) / 1000)) floored at 0 when the entry
\* exists, s1 >= s0 and t1 > t0, and 0 otherwise; never a negative value; and
\* 0 for every container when CounterState was empty.
ExpectedMillicores(prev, cur) ==
  IF prev = NoEntry THEN 0
  ELSE IF cur.totalSeconds < prev.totalSeconds THEN 0
  ELSE IF cur.tsMs <= prev.tsMs THEN 0
  ELSE Max(0, MathRound(1000 * (cur.totalSeconds - prev.totalSeconds) * 1000,
                        cur.tsMs - prev.tsMs))
C3_CpuRate ==
  Tier2Served =>
    \A i \in 1..Len(rows) :
      LET k == rows[i].key IN
      /\ cpuTotals[k] # NoEntry
      /\ rows[i].cpuMillicores = ExpectedMillicores(cyc.counterBefore[k], cpuTotals[k])
      /\ rows[i].cpuMillicores >= 0
      /\ cyc.counterBefore = EmptyMap => rows[i].cpuMillicores = 0

\* A rate was computed and rounded up: 1 CPU second in 1.5 s is 667 millicores.
C3_Witness ==
  /\ Tier2Served
  /\ \E i \in 1..Len(rows) :
       /\ rows[i].cpuMillicores = 667
       /\ cyc.counterBefore[rows[i].key] # NoEntry
       /\ cpuTotals[rows[i].key].totalSeconds = cyc.counterBefore[rows[i].key].totalSeconds + 1


\* C4: a Tier 2 run that completes returns, for every container of the Pod
\* Index whose memory sample was seen and whose CPU sample was not, a row with
\* cpuMillicores = 0 and the observed memoryBytes.
C4_MemoryOnlyRowKept ==
  Tier2Served =>
    \A k \in podsIndex :
      (memoryByContainer[k] # NoEntry /\ cpuTotals[k] = NoEntry) =>
        \E i \in 1..Len(rows) :
          /\ rows[i].key = k
          /\ rows[i].cpuMillicores = 0
          /\ rows[i].memoryBytes = memoryByContainer[k].value

\* C5 as claimed: after a Tier 2 run that completes, CounterState holds the
\* run's observation for every key for which a CPU sample was recorded.
C5_CounterOverwrittenForEverySample ==
  Tier2Served =>
    \A k \in Keys : cpuTotals[k] # NoEntry => cpuTotalByContainer[k] = cpuTotals[k]

\* C5 as amended: after a Tier 2 run that completes, CounterState holds the
\* run's observation for every key that has a CPU sample and whose pod has a
\* uid in the Pod Index (rate computed, first observation and counter reset
\* alike); every other key keeps the entry it had before the run.
C5_CounterOverwritten ==
  Tier2Served =>
    \A k \in Keys :
      IF cpuTotals[k] # NoEntry /\ k \in podsIndex
        THEN cpuTotalByContainer[k] = cpuTotals[k]
        ELSE cpuTotalByContainer[k] = cyc.counterBefore[k]

\* The counter-reset case: the entry is overwritten by a smaller counter value.
C5_Witness ==
  /\ Tier2Served
  /\ \E k \in podsIndex :
       /\ cyc.counterBefore[k] # NoEntry
       /\ cpuTotals[k] # NoEntry
       /\ cpuTotals[k].totalSeconds < cyc.counterBefore[k].totalSeconds
       /\ cpuTotalByContainer[k] = cpuTotals[k]

\* C6: when all three tiers have raised, collectOnce has rejected without
\* acquiring a connection, opening a transaction or persisting a row; the
\* loop's catch takes the error and the next step is the sleep, after which
\* the next cycle starts.
AllTiersRaised == cyc.raised = {1, 2, 3}
C6_AllTiersFail ==
  /\ [](AllTiersRaised =>
          /\ pc = "finished"
          /\ cyc.outcome = "failed"
          /\ cyc.failedAt = "tiers"
          /\ cyc.acquired = 0
          /\ ~cyc.began
          /\ ~connHeld
          /\ txnRows = <<>>
          /\ store = cyc.storeBefore)
  /\ [][AllTiersRaised => pc' = "sleep" /\ store' = store]_vars
  /\ [][(pc = "sleep" /\ cycle < MaxCycles) => (pc' = "podsIndex" /\ cycle' = cycle + 1)]_vars

C6_Witness == AllTiersRaised /\ pc = "finished" /\ cycle < MaxCycles

\* C7: after startup has succeeded no cycle ends the loop: cycle n, however
\* it ends, is followed by the start of cycle n + 1.
C7_LoopContinues ==
  \A n \in 1..(MaxCycles - 1) : (cycle = n) ~> (cycle = n + 1 /\ pc = "podsIndex")

\* A cycle has started on a connection whose previous ROLLBACK failed.
C7_Witness == cycle = 2 /\ pc = "podsIndex" /\ connTxn = "aborted"

\* C8: at most one request is in flight; while the first request of a cycle
\* is in flight the previous cycle holds no connection and no pending rows;
\* in the node loops the only request in flight is that of the current node.
C8_Sequential ==
  /\ Cardinality(inflight) <= 1
  /\ pc = "podsIndex" =>
       /\ inflight = {Req("k8sGet", "pods")}
       /\ ~connHeld
       /\ txnRows = <<>>
       /\ cyc.acquired = 0
  /\ pc = "t2scrape" => inflight = {Req("cadvisor", NodeList[nodeIdx])}
  /\ pc = "t3summary" => inflight = {Req("summary", NodeList[nodeIdx])}
  /\ pc = "sleep" => inflight = {Req("sleep", "")}

C8_Witness == pc = "t2scrape" /\ nodeIdx = 2 /\ cycle = 2

\* C9: every connection collectOnce acquires is released exactly once before
\* collectOnce settles, on every exit path; between cycles none is held.
C9_ConnectionReleased ==
  /\ cyc.acquired \in {0, 1}
  /\ cyc.released <= cyc.acquired
  /\ connHeld <=> (cyc.acquired = 1 /\ cyc.released = 0)
  /\ pc \in {"finished", "sleep", "podsIndex"} =>
       /\ ~connHeld
       /\ cyc.released = cyc.acquired

C9_Witness ==
  /\ pc = "finished"
  /\ cyc.rollbackFailed
  /\ cyc.acquired = 1
  /\ cyc.released = 1
  /\ ~connHeld

\* C10: a cycle ends with Tier 2's result only if every node was scraped
\* successfully and the scrapes held a CPU or memory sample of some container:
\* a failed scrape or the absence of the metrics makes Tier 2 raise.
C10_Tier2FallsThroughWithoutMetrics ==
  Tier2Served =>
    /\ nodeIdx = NumNodes
    /\ \E k \in Keys : cpuTotals[k] # NoEntry \/ memoryByContainer[k] # NoEntry

\* C11: container_id is a function of (podUid, containerName) only: two sample
\* rows, pending or committed, of any cycles and tiers, with equal podUid and
\* containerName carry equal containerId; and that id is the id the inventory
\* sync gives the container of the same pod uid and container name.
SampleRows == store \cup Range(txnRows)
C11_ContainerIdFunction ==
  /\ \A r1 \in SampleRows : \A r2 \in SampleRows :
       (r1.podUid = r2.podUid /\ r1.containerName = r2.containerName)
         => r1.containerId = r2.containerId
  /\ \A r \in SampleRows :
       r.containerId = InventoryContainerId(r.podUid, r.containerName)

\* The same container sampled by Tier 1 in one cycle (250 millicores) and by
\* Tier 3 in a later one (120 millicores), both committed under one id, while
\* the other pod's container of the same name has another id.
C11_Witness ==
  \E r1 \in store : \E r2 \in store : \E r3 \in store :
    /\ r1.cycle < r2.cycle
    /\ r1.podUid = r2.podUid
    /\ r1.cpuMillicores = 250
    /\ r2.cpuMillicores = 120
    /\ r1.containerId = r2.containerId
    /\ r3.podUid # r1.podUid
    /\ r3.containerName = r1.containerName
    /\ r3.containerId # r1.containerId

\* C12: every row a tier returns has cpuMillicores and memoryBytes that are
\* integers >= 0, whatever the source responded.
C12_RowsNonNegativeIntegers ==
  pc = "fetched" =>
    \A i \in 1..Len(rows) :
      /\ rows[i].cpuMillicores \in Nat
      /\ rows[i].memoryBytes \in Nat

C14_UnresolvedSampleDropped ==
  Tier2Served =>
    /\ cyc.attempted = <<1, 2>>
    /\ cyc.raised = {1}
    /\ \A k \in Keys :
         (\E i \in 1..Len(rows) : rows[i].key = k)
           <=> (cpuTotals[k] # NoEntry /\ k \in podsIndex)
    /\ \A i \in 1..Len(rows) : \A j \in 1..Len(rows) : rows[i].key = rows[j].key => i = j

\* The CPU series of p1's container came with its runtime id only and the Pod
\* Index does not list p1: the sample was dropped (the labelled memory sample
\* of the same exposition was taken), and p2's container has its row.
C14_Witness ==
  /\ Tier2Served
  /\ "unresolved" \in skipped
  /\ "ns/p1/c" \notin podsIndex
  /\ cpuTotals["ns/p1/c"] = NoEntry
  /\ memoryByContainer["ns/p1/c"] # NoEntry
  /\ Len(rows) = 1
  /\ rows[1].key = "ns/p2/c"

\* C15: a malformed exposition line (no label block, or a value that is not a
\* number) makes parsePrometheusLine return no result, and the line loop goes
\* on: what the scrape of an exposition records is what the scrape of its
\* well-formed lines alone records.
IsNumber(token) == Len(token) > 0 /\ LeadingDigits(token, 1, 0).count = Len(token)
Malformed(line) == ~line.braces \/ ~IsNumber(line.value)
WellFormedLines(lines) == SelectSeq(lines, LAMBDA l : ~Malformed(l))
C15_MalformedLineSkipped ==
  Returned("scrape") =>
    /\ \A i \in 1..Len(call.arg) :
         Malformed(call.arg[i]) => parsePrometheusLine(call.arg[i]) = NoResult
    /\ LET clean == ScrapeLines(WellFormedLines(call.arg), ByRuntimeContainerId(Keys),
                                EmptyScrape) IN
       /\ call.ret.cpu = clean.cpu
       /\ call.ret.mem = clean.mem

\* C16: the sleep between two cycles is max(0, interval - elapsed), elapsed
\* being the measured duration of the cycle just finished: it is never
\* negative, it is 0 when the cycle took the interval or longer, and otherwise
\* cycle duration plus sleep (start of one cycle to start of the next) is the
\* interval.
C16_SleepCompensates ==
  pc = "sleep" =>
    LET intervalMs == SAMPLE_INTERVAL_SECONDS * 1000 IN
    /\ cyc.elapsedMs \in ElapsedMsValues
    /\ cyc.sleepMs >= 0
    /\ cyc.sleepMs = (IF intervalMs - cyc.elapsedMs > 0 THEN intervalMs - cyc.elapsedMs ELSE 0)
    /\ cyc.elapsedMs >= intervalMs => cyc.sleepMs = 0
    /\ cyc.elapsedMs < intervalMs => cyc.elapsedMs + cyc.sleepMs = intervalMs

\* The first cycle, which stored nothing, took 29.999 s: the sleep is 1 ms.
C16_Witness ==
  /\ pc = "sleep"
  /\ cycle = 1
  /\ store = {}
  /\ cyc.elapsedMs = 29999
  /\ cyc.sleepMs = 1

\* C17: classifyContainerSeverity returns, for every container, the severity
\* and score of the first matching rule of: (1) error, 100 + restartCount, if
\* Terminated, or the reason is one of the eight fatal reasons, or
\* restartCount >= 5; (2) initializing, 20, if Waiting with reason
\* ContainerCreating, PodInitializing or a reason starting with "Init:";
\* (3) warning, 40 + min(restartCount, 10), if Waiting, or not ready, or
\* restartCount > 0; (4) healthy, 0.
ReasonOf(c) == IF c.lastState = Undefined THEN "" ELSE c.lastState.reason
FatalReasons ==
  {"CrashLoopBackOff", "OOMKilled", "Error", "ImagePullBackOff", "ErrImagePull",
   "CreateContainerConfigError", "InvalidImageName", "RunContainerError"}
Rule1(c) == c.status = "Terminated" \/ ReasonOf(c) \in FatalReasons \/ c.restartCount >= 5
Rule2(c) ==
  /\ c.status = "Waiting"
  /\ \/ ReasonOf(c) \in {"ContainerCreating", "PodInitializing"}
     \/ StartsWith(ReasonOf(c), "Init:")
Rule3(c) == c.status = "Waiting" \/ ~c.ready \/ c.restartCount > 0
RuleTable(c) ==
  IF Rule1(c) THEN <<"error", 100 + c.restartCount>>
  ELSE IF Rule2(c) THEN <<"initializing", 20>>
  ELSE IF Rule3(c) THEN <<"warning", IF c.restartCount < 10 THEN 40 + c.restartCount ELSE 50>>
  ELSE <<"healthy", 0>>
C17_SeverityRuleTable ==
  Returned("classifyContainerSeverity") =>
    <<call.ret.severity, call.ret.score>> = RuleTable(call.arg)

\* Five restarts make an error of a container that is running and ready.
C17_Witness ==
  /\ Returned("classifyContainerSeverity")
  /\ call.arg = Container("Running", Undefined, TRUE, 5)
  /\ call.ret.severity = "error"
  /\ call.ret.score = 105

\* C18 as claimed: a container that is Waiting with lastState.reason
\* ContainerCreating is classified initializing with score 20, whatever its
\* ready flag and restartCount.
C18_ContainerCreatingAlwaysInitializing ==
  ( /\ Returned("classifyContainerSeverity")
    /\ call.arg.status = "Waiting"
    /\ call.arg.lastState = [reason |-> "ContainerCreating"] )
  => (call.ret.severity = "initializing" /\ call.ret.score = 20)

\* C18 as amended: a container that is Waiting with lastState.reason
\* ContainerCreating is classified initializing with score 20 whatever its
\* ready flag when restartCount < 5, and error with score 100 + restartCount
\* when restartCount >= 5.
C18_ContainerCreatingInitializing ==
  ( /\ Returned("classifyContainerSeverity")
    /\ call.arg.status = "Waiting"
    /\ call.arg.lastState = [reason |-> "ContainerCreating"] )
  => IF call.arg.restartCount < 5
       THEN call.ret.severity = "initializing" /\ call.ret.score = 20
       ELSE call.ret.severity = "error" /\ call.ret.score = 100 + call.arg.restartCount

C18_Witness ==
  /\ Returned("classifyContainerSeverity")
  /\ call.arg = Container("Waiting", [reason |-> "ContainerCreating"], TRUE, 4)
  /\ call.ret = Assessment("initializing", "ContainerCreating", 20)

\* C19: for a pod whose status is Error, OOMKilled or CrashLoopBackOff,
\* computePodHealth returns health error, attentionScore 200 and the status as
\* attentionReason, whatever the containers and their logs are.
C19_ErrorStatusOverrides ==
  ( /\ Returned("computePodHealth")
    /\ call.arg.pod.status \in {"Error", "OOMKilled", "CrashLoopBackOff"} )
  => call.ret = PodHealth("error", 200, call.arg.pod.status)

\* An OOMKilled pod with a container whose own error score is 201.
C19_Witness ==
  /\ Returned("computePodHealth")
  /\ call.arg.pod.status = "OOMKilled"
  /\ \E i \in 1..Len(call.arg.pod.containers) :
       classifyContainerSeverity(call.arg.pod.containers[i]).score > 200
  /\ call.ret.attentionScore = 200

\* C20: for a pod of any other status computePodHealth is the first matching
\* step of: (a) the maximum-score container classification is an error ->
\* error with that score and label; (b) some container has an error-level log
\* entry -> warning, 60, "Error logs detected"; (c) the pod is Pending or the
\* maximum classification is a warning -> warning with score
\* max(containerScore, 35); (d) the maximum classification is initializing ->
\* warning with that score and label; (e) healthy with score 0.
Classified(pod) ==
  {classifyContainerSeverity(pod.containers[i]) : i \in 1..Len(pod.containers)}
TopScore(pod) ==
  IF Classified(pod) = {} THEN 0
  ELSE CHOOSE m \in {a.score : a \in Classified(pod)} :
         \A a \in Classified(pod) : a.score <= m
Top(pod) == {a \in Classified(pod) : a.score = TopScore(pod)}
TopIs(pod, severity) == \E a \in Top(pod) : a.severity = severity
ErrorLogged(in) ==
  \E i \in 1..Len(in.pod.containers) :
    /\ in.pod.containers[i].id \in DOMAIN in.containerLogs
    /\ LogEntry("error") \in Range(in.containerLogs[in.pod.containers[i].id])
C20_PodHealthSteps ==
  ( /\ Returned("computePodHealth")
    /\ call.arg.pod.status \notin {"Error", "OOMKilled", "CrashLoopBackOff"} )
  => LET pod == call.arg.pod
         ret == call.ret IN
     IF TopIs(pod, "error")
       THEN /\ ret.health = "error"
            /\ ret.attentionScore = TopScore(pod)
            /\ ret.attentionReason \in {a.label : a \in Top(pod)}
     ELSE IF ErrorLogged(call.arg)
       THEN ret = PodHealth("warning", 60, "Error logs detected")
     ELSE IF pod.status = "Pending" \/ TopIs(pod, "warning")
       THEN /\ ret.health = "warning"
            /\ ret.attentionScore = (IF TopScore(pod) > 35 THEN TopScore(pod) ELSE 35)
     ELSE IF TopIs(pod, "initializing")
       THEN /\ ret.health = "warning"
            /\ ret.attentionScore = TopScore(pod)
            /\ ret.attentionReason \in {a.label : a \in Top(pod)}
     ELSE ret.health = "healthy" /\ ret.attentionScore = 0

\* A Pending pod with a failed container that logged an error: the container
\* error wins over the error logs and over Pending.
C20_Witness ==
  /\ Returned("computePodHealth")
  /\ call.arg.pod.status = "Pending"
  /\ ErrorLogged(call.arg)
  /\ Len(call.arg.pod.containers) = 2
  /\ call.ret = PodHealth("error", 100, "OOMKilled")

\* C21: sortPodsByHealth returns a permutation of its argument (every pod as
\* often as it was given, the argument array as it was), ordered by health
\* priority error < warning < healthy ascending, within one health by
\* attentionScore descending, within one health and score by creation time
\* descending.
Occurrences(list, pod) == Cardinality({i \in 1..Len(list) : list[i] = pod})
C21_SortPodsByHealth ==
  Returned("sortPodsByHealth") =>
    LET pods == call.arg
        out == call.ret
    IN
    /\ Len(out) = Len(pods)
    /\ \A pod \in ClassifiedPods : Occurrences(out, pod) = Occurrences(pods, pod)
    /\ \A i \in 1..Len(out) - 1 :
         LET a == out[i]
             b == out[i + 1]
         IN
         /\ priority(a.health) <= priority(b.health)
         /\ a.health = b.health => a.attentionScore >= b.attentionScore
         /\ a.health = b.health /\ a.attentionScore = b.attentionScore
              => DateGetTime(a.createdAt) >= DateGetTime(b.createdAt)

\* A list given in the reverse of triage order: a healthy pod, a warning with
\* the higher score, two errors of one score with the older first.
C21_Witness ==
  /\ Returned("sortPodsByHealth")
  /\ Len(call.arg) = 3
  /\ call.arg[1].name = "d"
  /\ call.arg[2].name = "b"
  /\ call.arg[3].name = "c"
  /\ call.ret[1].name = "c"
  /\ call.ret[2].name = "b"
  /\ call.ret[3].name = "d"

\* C22: for finite numbers, deltaPercent(current, baseline) is
\* (current - baseline) / baseline * 100 when baseline is not zero; for a zero
\* baseline it is 0 when current is zero and null otherwise; the result is
\* always null or a finite number.
C22_DeltaPercent ==
  Returned("deltaPercent") =>
    LET c == call.arg.current
        b == call.arg.baseline
        r == call.ret
    IN
    /\ r = NullNumber \/ (IsFinite(r) /\ r.den > 0)
    /\ IsFinite(c) /\ IsFinite(b) =>
         /\ b.num # 0 =>
              /\ IsFinite(r)
              /\ r.num * (c.den * b.num) = 100 * (c.num * b.den - b.num * c.den) * r.den
         /\ b.num = 0 /\ c.num = 0 => r = Zero
         /\ b.num = 0 /\ c.num # 0 => r = NullNumber

\* The spec's example: a current p95 of 130 against a baseline of 100 is a
\* delta of 30 percent.
C22_Witness ==
  /\ Returned("deltaPercent")
  /\ call.arg = [current |-> Num(130, 1), baseline |-> Num(100, 1)]
  /\ call.ret = Num(30, 1)

\* C23: for a container name matched in both pods with samples in the
\* window on both sides, the score is the mean of the non-null ones of the
\* CPU and memory deltas and null when both are null; the status is
\* degraded exactly for score >= 10, improved exactly for score <= -10,
\* stable exactly between the two and unknown exactly for a null score. The
\* pod's score is the mean of its containers' non-null scores, classified by
\* the same thresholds.
HasWindowSamples(in, containerId) ==
  \E s \in Range(SamplesOf(in.samplesByContainerId, containerId)) :
    InWindow(s, Now - WINDOW_MS)
MatchedNames(in) ==
  IF in.pair.baselinePod = Undefined THEN {}
  ELSE {c.name : c \in Range(in.pair.currentPod.containers)}
       \cap {c.name : c \in Range(in.pair.baselinePod.containers)}
Thresholds(status, score) ==
  /\ status = "unknown" <=> score = NullNumber
  /\ status = "degraded" <=> score # NullNumber /\ AtLeast(score, Num(10, 1))
  /\ status = "improved" <=> score # NullNumber /\ AtLeast(Num(-10, 1), score)
  /\ status = "stable" <=> /\ score # NullNumber
                           /\ ~AtLeast(score, Num(10, 1))
                           /\ ~AtLeast(Num(-10, 1), score)
RECURSIVE SumOfScores(_, _)
SumOfScores(ids, impacts) ==
  IF ids = {} THEN Zero
  ELSE LET id == CHOOSE id \in ids : TRUE IN
       Plus(impacts[id].score, SumOfScores(ids \ {id}, impacts))
C23_ImpactScore ==
  Returned("useImpactScores") =>
    LET in == call.arg
        impacts == call.ret.containerImpacts
        pod == call.ret.podImpact
        scored == {id \in DOMAIN impacts : impacts[id].score # NullNumber}
    IN
    /\ \A name \in MatchedNames(in) :
         /\ HasWindowSamples(in, "current-" \o name)
         /\ HasWindowSamples(in, "baseline-" \o name)
         => /\ "current-" \o name \in DOMAIN impacts
            /\ LET impact == impacts["current-" \o name]
                   cpu == impact.cpuDeltaPercent
                   mem == impact.memoryDeltaPercent
               IN
               /\ cpu = NullNumber /\ mem = NullNumber => impact.score = NullNumber
               /\ cpu # NullNumber /\ mem = NullNumber => impact.score = cpu
               /\ cpu = NullNumber /\ mem # NullNumber => impact.score = mem
               /\ cpu # NullNumber /\ mem # NullNumber
                    => /\ impact.score # NullNumber
                       /\ Times(impact.score, Num(2, 1)) = Plus(cpu, mem)
               /\ Thresholds(impact.status, impact.score)
    /\ scored = {} => pod.score = NullNumber
    /\ scored # {} =>
         /\ pod.score # NullNumber
         /\ Times(pod.score, Num(Cardinality(scored), 1)) = SumOfScores(scored, impacts)
    /\ Thresholds(pod.status, pod.score)

\* One container exactly 10 percent up on both resources (score 10,
\* degraded), the other with only its memory delta defined (the CPU baseline
\* is zero): score -10, improved; the pod's score is their mean 0, stable.
C23_Witness ==
  /\ Returned("useImpactScores")
  /\ DOMAIN call.ret.containerImpacts = {"current-app", "current-sidecar"}
  /\ call.ret.containerImpacts["current-app"] =
       ContainerImpact("degraded", Num(10, 1), Num(10, 1), Num(10, 1))
  /\ call.ret.containerImpacts["current-sidecar"].cpuDeltaPercent = NullNumber
  /\ call.ret.containerImpacts["current-sidecar"].score = Num(-10, 1)
  /\ call.ret.containerImpacts["current-sidecar"].status = "improved"
  /\ call.ret.podImpact.score = Zero
  /\ call.ret.podImpact.status = "stable"

\* C24: when a container name is in both snapshots and either side has no
\* sample inside the selected window, the comparison's row for that name has
\* a null CPU delta and a null memory delta, never a number.
C24_MissingSamplesGiveNull ==
  Returned("rows") =>
    LET in == call.arg.comparison
        windowStartMs == Now - PanelWindowMs(call.arg.windowPreset)
        sampled(id) == \E s \in Range(SamplesOf(in.samplesByContainerId, id)) :
                         InWindow(s, windowStartMs)
    IN
    \A i \in 1..Len(call.ret) :
      LET name == call.ret[i].name IN
      /\ name \in MatchedNames(in)
      /\ ~sampled("current-" \o name) \/ ~sampled("baseline-" \o name)
      => /\ call.ret[i].cpuDelta = NullNumber
         /\ call.ret[i].memoryDelta = NullNumber

\* C25: for every deployment, the snapshot list has no two snapshots of one
\* version, each snapshot is taken from a most recently created pod of its
\* version (no version label counting as 'unknown'), the list is ordered
\* newest first, it holds min(10, number of distinct versions) snapshots, and
\* every version left out is no newer than every version kept.
NewestOf(pods, version) ==
  CHOOSE t \in {DateGetTime(p.createdAt) : p \in {q \in pods : VersionOrUnknown(q) = version}} :
    \A p \in {q \in pods : VersionOrUnknown(q) = version} : DateGetTime(p.createdAt) <= t
InCycle == pc \notin {"startup", "sleep", "exited"}
ListPods == Req("k8sGet", "pods")
TierRunning == pc \in {"tier1", "t2nodes", "t2scrape", "t3nodes", "t3summary"}
C26_PodIndexFirstEveryCycle ==
  /\ InCycle => cyc.listPods = 1
  /\ ListPods \in inflight =>
       /\ inflight = {ListPods}
       /\ cyc.attempted = <<>>
       /\ ~cyc.pods.fetched
       /\ podsIndex = {}
  /\ TierRunning \/ pc = "fetched" =>
       /\ ListPods \notin inflight
       /\ cyc.pods.fetched
       /\ podsIndex = cyc.pods.index
  /\ pc = "sleep" => podsIndex = {} /\ ~cyc.pods.fetched

\* The second cycle has fallen back to Tier 3, which holds the index of one
\* pod that this cycle's list-pods response gave, while the first cycle
\* stored a Tier 2 or Tier 3 row of the other pod, found in its own index.
C26_Witness ==
  /\ cycle = 2
  /\ pc = "t3summary"
  /\ cyc.attempted = <<1, 2, 3>>
  /\ cyc.pods = [fetched |-> TRUE, index |-> {"ns/p1/c"}]
  /\ podsIndex = {"ns/p1/c"}
  /\ \E r \in store : r.cycle = 1 /\ r.key = "ns/p2/c" /\ r.cpuMillicores = 0


\* C27: CounterState is empty at process start; in a cycle that Tier 2 does
\* not serve (Tier 1 serves it, Tier 2 raises, Tier 3 runs, the Pod Index
\* fetch fails) every entry is what it was when the cycle began; an entry,
\* once present, is never absent again.
C27_CounterStateFrame ==
  /\ cycle = 0 => cpuTotalByContainer = EmptyMap
  /\ cyc.served # 2 => cpuTotalByContainer = cyc.counterBefore
  /\ \A k \in Keys :
       cyc.counterBefore[k] # NoEntry => cpuTotalByContainer[k] # NoEntry

\* Tier 2 raised in the second cycle and Tier 3 served it: the entry an
\* earlier Tier 2 run wrote is still there, unchanged.
C27_Witness ==
  /\ cycle = 2
  /\ 2 \in cyc.raised
  /\ cyc.served = 3
  /\ pc = "finished"
  /\ cyc.counterBefore["ns/p1/c"] # NoEntry
  /\ cpuTotalByContainer = cyc.counterBefore


\* C28: when a cycle served by Tier 2 fails in storage (no connection, or the
\* transaction is rolled back), nothing of it is stored and CounterState
\* still holds the samples that Tier 2 run observed; every Tier 2 rate is
\* taken against the CounterState the cycle began with, so the cycle after a
\* failed one measures from the failed cycle's observation.
C28_CounterStateSurvivesRollback ==
  /\ cyc.served = 2 /\ cyc.outcome = "failed" =>
       /\ store = cyc.storeBefore
       /\ \A k \in Keys :
            cyc.observed[k] # NoEntry => cpuTotalByContainer[k] = cyc.observed[k]
  /\ cyc.served = 2 =>
       \A i \in 1..Len(cyc.tierRows) :
         LET k == cyc.tierRows[i].key IN
         /\ cyc.observed[k] # NoEntry
         /\ cyc.tierRows[i].cpuMillicores =
              ExpectedMillicores(cyc.counterBefore[k], cyc.observed[k])

\* The first cycle observed (1 s, 1500 ms) and failed in storage: nothing is
\* stored. The second cycle observes (2 s, 3000 ms) and reports 667
\* millicores, the rate since the failed cycle's observation.
C28_Witness ==
  /\ cycle = 2
  /\ cyc.served = 2
  /\ cyc.storeBefore = {}
  /\ cyc.counterBefore["ns/p1/c"] = [totalSeconds |-> 1, tsMs |-> 1500]
  /\ cyc.observed["ns/p1/c"] = [totalSeconds |-> 2, tsMs |-> 3000]
  /\ \E i \in 1..Len(cyc.tierRows) :
       /\ cyc.tierRows[i].key = "ns/p1/c"
       /\ cyc.tierRows[i].cpuMillicores = 667
  /\ cyc.outcome = "ok"


SeverityRank(severity) ==
  CASE severity = "error" -> 3
    [] severity = "warning" -> 2
    [] severity = "initializing" -> 1
    [] severity = "healthy" -> 0
C30_AttentionScoreBands ==
  Returned("computePodHealth") =>
    LET pod == call.arg.pod
        health == call.ret.health
        score == call.ret.attentionScore
        assessed == Classified(pod)
    IN
    (\A i \in 1..Len(pod.containers) : pod.containers[i].restartCount >= 0) =>
      /\ health = "healthy" <=> score = 0
      /\ health = "warning" => 20 <= score /\ score <= 60
      /\ health = "error" => score >= 100
      /\ priority(health) = (IF score >= 100 THEN 0 ELSE IF score >= 20 THEN 1 ELSE 2)
      /\ \A a, b \in assessed :
           a.score >= b.score => SeverityRank(a.severity) >= SeverityRank(b.severity)

\* A Pending pod whose containers are one running and ready, one being
\* created: the initializing score 20 is raised to 35, inside the warning
\* band.
C30_Witness ==
  /\ Returned("computePodHealth")
  /\ call.arg.pod.status = "Pending"
  /\ Len(call.arg.pod.containers) = 2
  /\ {a.severity : a \in Classified(call.arg.pod)} = {"healthy", "initializing"}
  /\ call.ret.health = "warning"
  /\ call.ret.attentionScore = 35

====
